---- MODULE Spec2Model ----
(***************************************************************************)
(* The Visual lifecycle of colour-analysis-three.js: a Visual owns a       *)
(* named renderable attached to a parent node of the scene graph, a cache  *)
(* from route strings to renderables, and the fetches that fill the cache. *)
(* One Visual is modelled, of one of three concrete classes:               *)
(*   ColourspaceVisual  (base Visual.fetch),                               *)
(*   ImageVisual        (its own fetch, which goes through the "visual"    *)
(*                       setter),                                          *)
(*   ImageScatterVisual (base Visual.fetch).                               *)
(* Renderables are numbered in creation order; opacities and point sizes   *)
(* are written in hundredths (75 is 0.75).  The three.js scene graph is    *)
(* modelled by what Object3D.add / remove / getObjectByName do.            *)
(***************************************************************************)
EXTENDS Integers, Sequences, FiniteSets, Bags, TLC

\* ------------------------------------------------------------------ bounds

\* The number of fetches one behaviour may issue.
MaxFetches == 2
\* The fetches the Visuals of one view issue in a behaviour.
MaxViewFetches == 2
\* The public calls of animate() in a behaviour.
MaxAnimateCalls == 2
\* The evaluations of route() a behaviour records.
MaxRouteCalls == 2
\* The objects below the node removeObjectByName is called on.
MaxNodes == 3
\* The calls of the message helpers.
MaxMessages == 2

\* ------------------------------------------------------- values and inputs

Undefined == "undefined"

Kinds == {"ColourspaceVisual", "ImageVisual", "ImageScatterVisual"}

\* The parent nodes a Visual may be bound to.
Parents == {"group1", "group2"}

\* The values the setters are called with.
ColourspaceValues == {"sRGB", "DCI-P3"}
ColourspaceModelValues == {"CIE xyY"}
PrimaryColourspaceValues == {"sRGB"}
SecondaryColourspaceValues == {"DCI-P3"}
SegmentsValues == {16}
UniformColourValues == {Undefined}
ImageValues == {"Rose.ProPhoto.jpg"}
CctfValues == {"sRGB"}
ImageColourspaceValues == {"Primary", "Secondary"}
SubSamplingValues == {25}
SaturateValues == BOOLEAN
OutOfGamutValues == {FALSE}
WireframeValues == BOOLEAN
OpacityValues == {75, 100}
PointSizeValues == {1, 2}

VARIABLES
    kind,                  \* the concrete class of the Visual
    colourAnalysisServer,  \* window.colourAnalysisServer (not set by default)
    parent,                \* this._parent
    visible,               \* this._visible
    param,                 \* the parameter fields of the concrete class
    cache,                 \* this._cache: route -> renderable
    visual,                \* this._visual: a renderable, or 0 for undefined
    loading,               \* this._loading
    objects,               \* the renderables created so far, by number
    children,              \* the children of each parent node, in order
    pending,               \* the requests in flight
    fetchCount,            \* the number of fetches issued so far
    lastRoute,             \* the route the latest add() looked up
    adds,                  \* the add() calls the latest handler made
    fetches,               \* the fetches the latest handler issued
    thrown,                \* the error the latest handler raised, or "none"
    viewKind,              \* the class of the view, or undefined without one
    viewParam,             \* the shared parameter fields of the view
    constituents,          \* the view's Visuals that exist, by property name
    viewFetchCount,        \* the number of fetches the view's Visuals issued
    animation,             \* the frame loop of the view
    returned,              \* what the latest call returned, or "none"
    routeLog,              \* the recorded evaluations of route()
    settings,              \* the settings the Visual was constructed with
    fade                   \* the message elements, registries and timers

vars == <<kind, colourAnalysisServer, parent, visible, param, cache, visual,
          loading, objects, children, pending, fetchCount, lastRoute, adds,
          fetches, thrown, viewKind, viewParam, constituents,
          viewFetchCount, animation, returned, routeLog, settings, fade>>

\* ------------------------------------------------------------ construction

DefaultName(k) ==
    CASE k = "ColourspaceVisual" -> "colourspace-visual"
      [] k = "ImageVisual" -> "image-visual"
      [] k = "ImageScatterVisual" -> "image-scatter-visual"
      [] k = "SpectralLocusVisual" -> "spectral-locus-visual"
      [] k = "PointerGamutVisual" -> "pointer-gamut-visual"
      [] k = "ViewAxesVisual" -> "view-axes-visual"
      [] k = "VisibleSpectrumVisual" -> "visible-spectrum-visual"
      [] k = "Visual" -> "visual"

\* this._name: read only once constructed.
name == DefaultName(kind)

SpectralLocusVisualParam ==
    [colourspace |-> "sRGB", colourspaceModel |-> "CIE xyY",
     uniformColour |-> Undefined, uniformOpacity |-> 75]

PointerGamutVisualParam ==
    [colourspaceModel |-> "CIE xyY", uniformColour |-> Undefined,
     uniformOpacity |-> 75]

ViewAxesVisualParam == [colourspaceModel |-> "CIE xyY"]

\* The class is imported by GamutView only: of its parameters, the one the
\* view gives it and writes.
VisibleSpectrumVisualParam == [colourspaceModel |-> "CIE xyY"]

DefaultParam(k) ==
    CASE k = "ColourspaceVisual" ->
            [colourspace |-> "sRGB", colourspaceModel |-> "CIE xyY",
             segments |-> 16, uniformColour |-> Undefined,
             uniformOpacity |-> 75, wireframe |-> FALSE,
             wireframeColour |-> Undefined, wireframeOpacity |-> 100]
      [] k = "ImageVisual" ->
            [image |-> "Rose.ProPhoto.jpg", primaryColourspace |-> "sRGB",
             secondaryColourspace |-> "DCI-P3", imageColourspace |-> "Primary",
             imageDecodingCctf |-> "sRGB", uniformOpacity |-> 100,
             outOfPrimaryColourspaceGamut |-> FALSE,
             outOfSecondaryColourspaceGamut |-> FALSE,
             outOfPointerGamut |-> FALSE, saturate |-> FALSE, depth |-> 0]
      [] k = "ImageScatterVisual" ->
            [image |-> "Rose.ProPhoto.jpg", primaryColourspace |-> "sRGB",
             secondaryColourspace |-> "DCI-P3", imageColourspace |-> "Primary",
             imageDecodingCctf |-> "sRGB", colourspaceModel |-> "CIE xyY",
             uniformColour |-> Undefined, uniformOpacity |-> 75,
             outOfPrimaryColourspaceGamut |-> FALSE,
             outOfSecondaryColourspaceGamut |-> FALSE,
             subSampling |-> 25, pointSize |-> 1, saturate |-> FALSE]
      [] k = "SpectralLocusVisual" -> SpectralLocusVisualParam
      [] k = "PointerGamutVisual" -> PointerGamutVisualParam
      [] k = "ViewAxesVisual" -> ViewAxesVisualParam
      [] k = "VisibleSpectrumVisual" -> VisibleSpectrumVisualParam

\* The fields of a view its constructor sets from the default settings.
DefaultViewParam ==
    [image |-> "Rose.ProPhoto.jpg", primaryColourspace |-> "sRGB",
     secondaryColourspace |-> "DCI-P3", imageColourspace |-> "Primary",
     imageDecodingCctf |-> "sRGB", colourspaceModel |-> "CIE xyY"]

\* A view that has not called animate().
NoAnimation == [calls |-> 0, requests |-> 0, tick |-> 0, log |-> <<>>]

\* The settings of a constructor call that passes none.
NoSettings == [x \in {} |-> TRUE]

\* A page that has shown no message.  The two message helpers, info and
\* warning, have each an element and a registry of their own: each registry
\* is a new Array, no timer is set, and an element is fully opaque.
NoFade ==
    [element |-> [h \in {"info", "warning"} |->
                    [exists |-> FALSE, opacity |-> 100, innerText |-> 0]],
     registry |-> [h \in {"info", "warning"} |-> <<>>],
     timers |-> {}, ids |-> 0, calls |-> 0]

\* The state of a program that has constructed no view.
NoView ==
    /\ viewKind = Undefined
    /\ viewParam = DefaultViewParam
    /\ constituents = [s \in {} |-> 0]
    /\ viewFetchCount = 0
    /\ animation = NoAnimation
    /\ returned = "none"
    /\ routeLog = <<>>
    /\ settings = NoSettings
    /\ fade = NoFade

Init ==
    /\ kind \in Kinds
    /\ colourAnalysisServer = Undefined
    /\ parent = "group1"
    /\ visible = TRUE
    /\ param = DefaultParam(kind)
    /\ cache = [r \in {} |-> 0]
    /\ visual = 0
    /\ loading = FALSE
    /\ objects = <<>>
    /\ children = [p \in Parents |-> <<>>]
    /\ pending = {}
    /\ fetchCount = 0
    /\ lastRoute = <<>>
    /\ adds = 0
    /\ fetches = 0
    /\ thrown = "none"
    /\ NoView

\* ------------------------------------------------------------------ routes

\* encodeURIComponent on the values the setters are called with: a space is
\* escaped, the other characters of these values are unreserved.
EncodeURIComponent(s) ==
    CASE s = "CIE xyY" -> "CIE%20xyY"
      [] s = "CIE Lab" -> "CIE%20Lab"
      [] OTHER -> s

\* A boolean as a template literal renders it.
BoolString(b) == IF b THEN "true" ELSE "false"

\* A route is written as the sequence of the pieces its template literal is
\* made of: the literal text and the interpolated values, in order.  The
\* string is their concatenation.
serverRoute(server, r) ==
    IF server # Undefined THEN <<server>> \o r ELSE r

\* A route that carries the number of requests issued so far.
ColourspaceVisualRouteCounting(server, p) ==
    serverRoute(server,
        <<"/RGB-colourspace-volume-visual?",
          "colourspace=", EncodeURIComponent(p.colourspace), "&",
          "colourspaceModel=", EncodeURIComponent(p.colourspaceModel), "&",
          "segments=", ToString(p.segments), "&",
          "wireframe=", BoolString(p.wireframe), "&",
          "request=", ToString(fetchCount)>>)

ColourspaceVisualRoute(server, p) ==
    serverRoute(server,
        <<"/RGB-colourspace-volume-visual?",
          "colourspace=", EncodeURIComponent(p.colourspace), "&",
          "colourspaceModel=", EncodeURIComponent(p.colourspaceModel), "&",
          "segments=", ToString(p.segments), "&",
          "wireframe=", BoolString(p.wireframe), "&">>)

\* A route that leaves the image colourspace out.
ImageVisualRouteWithoutImageColourspace(server, p) ==
    serverRoute(server,
        <<"/image-data/", EncodeURIComponent(p.image), "?",
          "primaryColourspace=", EncodeURIComponent(p.primaryColourspace), "&",
          "secondaryColourspace=", EncodeURIComponent(p.secondaryColourspace), "&",
          "imageDecodingCctf=", EncodeURIComponent(p.imageDecodingCctf), "&",
          "outOfPrimaryColourspaceGamut=", BoolString(p.outOfPrimaryColourspaceGamut), "&",
          "outOfSecondaryColourspaceGamut=", BoolString(p.outOfSecondaryColourspaceGamut), "&",
          "outOfPointerGamut=", BoolString(p.outOfPointerGamut), "&",
          "saturate=", BoolString(p.saturate)>>)

ImageVisualRoute(server, p) ==
    serverRoute(server,
        <<"/image-data/", EncodeURIComponent(p.image), "?",
          "primaryColourspace=", EncodeURIComponent(p.primaryColourspace), "&",
          "secondaryColourspace=", EncodeURIComponent(p.secondaryColourspace), "&",
          "imageColourspace=", EncodeURIComponent(p.imageColourspace), "&",
          "imageDecodingCctf=", EncodeURIComponent(p.imageDecodingCctf), "&",
          "outOfPrimaryColourspaceGamut=", BoolString(p.outOfPrimaryColourspaceGamut), "&",
          "outOfSecondaryColourspaceGamut=", BoolString(p.outOfSecondaryColourspaceGamut), "&",
          "outOfPointerGamut=", BoolString(p.outOfPointerGamut), "&",
          "saturate=", BoolString(p.saturate)>>)

ImageScatterVisualRoute(server, p) ==
    serverRoute(server,
        <<"/RGB-image-scatter-visual/", p.image, "?",
          "primaryColourspace=", EncodeURIComponent(p.primaryColourspace), "&",
          "secondaryColourspace=", EncodeURIComponent(p.secondaryColourspace), "&",
          "imageColourspace=", EncodeURIComponent(p.imageColourspace), "&",
          "imageDecodingCctf=", EncodeURIComponent(p.imageDecodingCctf), "&",
          "colourspaceModel=", EncodeURIComponent(p.colourspaceModel), "&",
          "outOfPrimaryColourspaceGamut=", BoolString(p.outOfPrimaryColourspaceGamut), "&",
          "outOfSecondaryColourspaceGamut=", BoolString(p.outOfSecondaryColourspaceGamut), "&",
          "subSampling=", ToString(p.subSampling), "&",
          "saturate=", BoolString(p.saturate), "&">>)

\* SpectralLocusVisual.route() does not go through serverRoute.
SpectralLocusVisualRoute(server, p) ==
    <<"/spectral-locus-visual?",
      "colourspace=", EncodeURIComponent(p.colourspace), "&",
      "colourspaceModel=", EncodeURIComponent(p.colourspaceModel), "&">>

PointerGamutVisualRoute(server, p) ==
    serverRoute(server,
        <<"/pointer-gamut-visual?",
          "colourspaceModel=", EncodeURIComponent(p.colourspaceModel), "&">>)

\* ViewAxesVisual.route() neither encodes its value nor goes through
\* serverRoute.
ViewAxesVisualRoute(server, p) ==
    <<"/colourspace-models?colourspaceModel=", p.colourspaceModel>>

\* The route of the class GamutView imports, as the other Visuals of the
\* view build theirs.
VisibleSpectrumVisualRoute(server, p) ==
    serverRoute(server,
        <<"/visible-spectrum-visual?",
          "colourspaceModel=", EncodeURIComponent(p.colourspaceModel), "&">>)

\* route() of the concrete class, on the parameter record p.
RouteOf(k, server, p) ==
    CASE k = "ColourspaceVisual" -> ColourspaceVisualRoute(server, p)
      [] k = "ImageVisual" -> ImageVisualRoute(server, p)
      [] k = "ImageScatterVisual" -> ImageScatterVisualRoute(server, p)
      [] k = "SpectralLocusVisual" -> SpectralLocusVisualRoute(server, p)
      [] k = "PointerGamutVisual" -> PointerGamutVisualRoute(server, p)
      [] k = "ViewAxesVisual" -> ViewAxesVisualRoute(server, p)
      [] k = "VisibleSpectrumVisual" -> VisibleSpectrumVisualRoute(server, p)

\* this.route() in the current state.
route == RouteOf(kind, colourAnalysisServer, param)

\* ------------------------------------------------------------- scene graph

\* Object3D.remove: the object leaves the children list.
ObjectRemove(ch, o) == SelectSeq(ch, LAMBDA x : x # o)

\* Object3D.add: an object that has a parent leaves it first, then becomes
\* the last child of the node it is added to.
ObjectAdd(chs, p, o) ==
    [q \in DOMAIN chs |->
        IF q = p THEN Append(ObjectRemove(chs[q], o), o)
        ELSE ObjectRemove(chs[q], o)]

\* removeObjectByName: while the node has an object of that name below it,
\* remove that object from its parent.
removeObjectByName(objs, chs, p, n) ==
    [chs EXCEPT ![p] = SelectSeq(@, LAMBDA x : objs[x].name # n)]

\* The renderables attached under node p that bear name n.
AttachedNamed(p, n) ==
    {i \in 1..Len(children[p]) : objects[children[p][i]].name = n}

\* The renderables a function (the cache) holds.
Range(f) == {f[x] : x \in DOMAIN f}

\* ------------------------------------------------------------------ create

\* create(data) of the concrete class: a new renderable built from the
\* response to request r and from the current attributes.  Of the material,
\* the fields the setters write are kept, and for ImageVisual the flag that
\* tells which of its two materials create() built.
ColourspaceVisualCreate(r) ==
    [name |-> name, visible |-> visible, data |-> r,
     material |-> [opacity |-> param.uniformOpacity,
                   wireframe |-> param.wireframe]]

ImageVisualCreate(r) ==
    [name |-> name, visible |-> visible, data |-> r,
     material |-> IF param.uniformOpacity = 100
                  THEN [opacity |-> 100, transparent |-> FALSE]
                  ELSE [opacity |-> param.uniformOpacity, transparent |-> TRUE]]

ImageScatterVisualCreate(r) ==
    [name |-> name, visible |-> visible, data |-> r,
     material |-> [opacity |-> param.uniformOpacity,
                   size |-> param.pointSize]]

create(r) ==
    CASE kind = "ColourspaceVisual" -> ColourspaceVisualCreate(r)
      [] kind = "ImageVisual" -> ImageVisualCreate(r)
      [] kind = "ImageScatterVisual" -> ImageScatterVisualCreate(r)

\* ------------------------------------------------------------ add and fetch

\* A fetch that joins a request already in flight for the same route.
fetchDeduplicated(r) ==
    IF \E q \in pending : q.route = r
    THEN UNCHANGED <<fetchCount, pending>>
    ELSE /\ fetchCount < MaxFetches
         /\ fetchCount' = fetchCount + 1
         /\ pending' = pending \cup {[id |-> fetchCount + 1, route |-> r]}

\* fetch(r): a loader request for r is in flight; its callbacks run later.
fetch(r) ==
    /\ fetchCount < MaxFetches
    /\ fetchCount' = fetchCount + 1
    /\ pending' = pending \cup {[id |-> fetchCount + 1, route |-> r]}

\* An add() that leaves the loading flag set when it reuses the cache.
AddWithLoadingKept(p) ==
    LET r == RouteOf(kind, colourAnalysisServer, p)
        removed == removeObjectByName(objects, children, parent, name)
    IN  /\ lastRoute' = r
        /\ loading' = TRUE
        /\ IF r \in DOMAIN cache
           THEN /\ visual' = cache[r]
                /\ children' = ObjectAdd(removed, parent, cache[r])
                /\ UNCHANGED <<pending, fetchCount>>
           ELSE /\ fetch(r)
                /\ children' = removed
                /\ UNCHANGED visual
        /\ UNCHANGED <<cache, objects>>

\* An add() that issues no request while the loading flag is set.
AddWithSkipsWhileLoading(p) ==
    LET r == RouteOf(kind, colourAnalysisServer, p)
        removed == removeObjectByName(objects, children, parent, name)
    IN  /\ lastRoute' = r
        /\ IF r \in DOMAIN cache
           THEN /\ visual' = cache[r]
                /\ children' = ObjectAdd(removed, parent, cache[r])
                /\ loading' = FALSE
                /\ UNCHANGED <<pending, fetchCount>>
           ELSE /\ IF loading
                   THEN UNCHANGED <<pending, fetchCount>>
                   ELSE fetch(r)
                /\ children' = removed
                /\ loading' = TRUE
                /\ UNCHANGED visual
        /\ UNCHANGED <<cache, objects>>

\* add() with the parameter record p stored in the Visual.
\* An add() that empties the cache when it misses.
AddWithCacheDropped(p) ==
    LET r == RouteOf(kind, colourAnalysisServer, p)
        removed == removeObjectByName(objects, children, parent, name)
    IN  /\ lastRoute' = r
        /\ IF r \in DOMAIN cache
           THEN /\ visual' = cache[r]
                /\ children' = ObjectAdd(removed, parent, cache[r])
                /\ loading' = FALSE
                /\ UNCHANGED <<pending, fetchCount, cache>>
           ELSE /\ fetch(r)
                /\ children' = removed
                /\ loading' = TRUE
                /\ cache' = [k \in {} |-> 0]
                /\ UNCHANGED visual
        /\ UNCHANGED objects

AddWith(p) ==
    LET r == RouteOf(kind, colourAnalysisServer, p)
        removed == removeObjectByName(objects, children, parent, name)
    IN  /\ lastRoute' = r
        /\ IF r \in DOMAIN cache
           THEN /\ visual' = cache[r]
                /\ children' = ObjectAdd(removed, parent, cache[r])
                /\ loading' = FALSE
                /\ UNCHANGED <<pending, fetchCount>>
           ELSE /\ fetch(r)
                /\ children' = removed
                /\ loading' = TRUE
                /\ UNCHANGED visual
        /\ UNCHANGED <<cache, objects>>

\* The fields no parameter setter, add() or callback writes.
Fixed ==
    UNCHANGED <<kind, colourAnalysisServer, viewKind, viewParam, constituents,
                viewFetchCount, animation, returned, routeLog, settings, fade>>

\* A public call of add().
Add ==
    /\ AddWith(param)
    /\ adds' = 1
    /\ fetches' = fetchCount' - fetchCount
    /\ thrown' = "none"
    /\ UNCHANGED <<param, parent, visible>>
    /\ Fixed

\* A setter that stores its value and calls add().
StoreAndAdd(p) ==
    /\ param' = p
    /\ AddWith(p)
    /\ adds' = 1
    /\ fetches' = fetchCount' - fetchCount
    /\ thrown' = "none"
    /\ UNCHANGED <<parent, visible>>
    /\ Fixed

\* A cache that keeps the latest entry alone.
CacheStoreEvicting(c, r, o) == [k \in {r} |-> o]

\* The cache with key r bound to renderable o.
CacheStore(c, r, o) ==
    [k \in DOMAIN c \cup {r} |-> IF k = r THEN o ELSE c[k]]

\* A callback that stores under route() as it is when the response arrives.
VisualFetchLoadCurrentRoute(req) ==
    LET o == Len(objects) + 1
    IN  /\ objects' = Append(objects, create(req))
        /\ visual' = o
        /\ cache' = CacheStore(cache, route, o)
        /\ children' = ObjectAdd(children, parent, o)
        /\ loading' = FALSE

\* The onLoad callback of Visual.fetch.
\* A callback that leaves the loading flag as it finds it.
VisualFetchLoadLoadingKept(req) ==
    LET o == Len(objects) + 1
    IN  /\ objects' = Append(objects, create(req))
        /\ visual' = o
        /\ cache' = CacheStore(cache, req.route, o)
        /\ children' = ObjectAdd(children, parent, o)
        /\ UNCHANGED loading

VisualFetchLoad(req) ==
    LET o == Len(objects) + 1
    IN  /\ objects' = Append(objects, create(req))
        /\ visual' = o
        /\ cache' = CacheStore(cache, req.route, o)
        /\ children' = ObjectAdd(children, parent, o)
        /\ loading' = FALSE

\* The onLoad callback of ImageVisual.fetch: the renderable is installed
\* through the "visual" setter, which removes by name before it attaches.
\* A callback that attaches the renderable without the "visual" setter.
ImageVisualFetchLoadAttachOnly(req) ==
    LET o == Len(objects) + 1
    IN  /\ objects' = Append(objects, create(req))
        /\ visual' = o
        /\ cache' = CacheStore(cache, req.route, o)
        /\ children' = ObjectAdd(children, parent, o)
        /\ loading' = FALSE

ImageVisualFetchLoad(req) ==
    LET o == Len(objects) + 1
        objs == Append(objects, create(req))
        removed == removeObjectByName(objs, children, parent, name)
        set == ObjectAdd(removed, parent, o)
    IN  /\ objects' = objs
        /\ visual' = o
        /\ cache' = CacheStore(cache, req.route, o)
        /\ children' = ObjectAdd(set, parent, o)
        /\ loading' = FALSE

\* A response handler that drops the response to a superseded request.
FetchLoadDiscardStale(req) ==
    /\ req \in pending
    /\ pending' = pending \ {req}
    /\ IF req.route # lastRoute
       THEN UNCHANGED <<objects, visual, cache, children, loading>>
       ELSE IF kind = "ImageVisual"
            THEN ImageVisualFetchLoad(req)
            ELSE VisualFetchLoad(req)
    /\ adds' = 0
    /\ fetches' = 0
    /\ thrown' = "none"
    /\ UNCHANGED <<param, parent, visible, fetchCount, lastRoute>>
    /\ Fixed

\* A response arrives: the request's onLoad callback runs.
FetchLoad(req) ==
    /\ req \in pending
    /\ pending' = pending \ {req}
    /\ IF kind = "ImageVisual"
       THEN ImageVisualFetchLoad(req)
       ELSE VisualFetchLoad(req)
    /\ adds' = 0
    /\ fetches' = 0
    /\ thrown' = "none"
    /\ UNCHANGED <<param, parent, visible, fetchCount, lastRoute>>
    /\ Fixed

\* A request fails: no onError callback is registered, nothing runs.
\* A failure handler that issues the request again.
FetchErrorRetries(req) ==
    /\ req \in pending
    /\ IF fetchCount < MaxFetches
       THEN /\ fetchCount' = fetchCount + 1
            /\ pending' = (pending \ {req}) \cup
                             {[id |-> fetchCount + 1, route |-> req.route]}
       ELSE /\ fetchCount' = fetchCount
            /\ pending' = pending \ {req}
    /\ adds' = 0
    /\ fetches' = 0
    /\ thrown' = "none"
    /\ UNCHANGED <<param, parent, visible, cache, visual, loading, objects,
                   children, lastRoute>>
    /\ Fixed

FetchError(req) ==
    /\ req \in pending
    /\ pending' = pending \ {req}
    /\ adds' = 0
    /\ fetches' = 0
    /\ thrown' = "none"
    /\ UNCHANGED <<param, parent, visible, cache, visual, loading, objects,
                   children, fetchCount, lastRoute>>
    /\ Fixed

\* ----------------------------------------------- route parameter setters

IsImageKind == kind \in {"ImageVisual", "ImageScatterVisual"}

SetColourspace(value) ==
    /\ kind = "ColourspaceVisual"
    /\ StoreAndAdd([param EXCEPT !.colourspace = value])

SetColourspaceModel(value) ==
    /\ kind \in {"ColourspaceVisual", "ImageScatterVisual"}
    /\ StoreAndAdd([param EXCEPT !.colourspaceModel = value])

SetSegments(value) ==
    /\ kind = "ColourspaceVisual"
    /\ StoreAndAdd([param EXCEPT !.segments = value])

SetUniformColour(value) ==
    /\ kind \in {"ColourspaceVisual", "ImageScatterVisual"}
    /\ StoreAndAdd([param EXCEPT !.uniformColour = value])

SetImage(value) ==
    /\ IsImageKind
    /\ StoreAndAdd([param EXCEPT !.image = value])

SetPrimaryColourspace(value) ==
    /\ IsImageKind
    /\ StoreAndAdd([param EXCEPT !.primaryColourspace = value])

SetSecondaryColourspace(value) ==
    /\ IsImageKind
    /\ StoreAndAdd([param EXCEPT !.secondaryColourspace = value])

\* The message of the imageColourspace setters.
ImageColourspaceError ==
    "\"imageColourspace\" value must be one of [\"Primary\", \"Secondary\"]!"

\* A handler that raises before it has written anything.
Throw(message) ==
    /\ thrown' = message
    /\ adds' = 0
    /\ fetches' = 0
    /\ UNCHANGED <<param, parent, visible, cache, visual, loading, objects,
                   children, pending, fetchCount, lastRoute>>
    /\ Fixed

\* ImageScatterVisual defines the accessor twice; the later definition, the
\* validating one, is the one the class has.
SetImageColourspace(value) ==
    /\ IsImageKind
    /\ IF value \notin {"Primary", "Secondary"}
       THEN Throw(ImageColourspaceError)
       ELSE StoreAndAdd([param EXCEPT !.imageColourspace = value])

SetImageDecodingCctf(value) ==
    /\ IsImageKind
    /\ StoreAndAdd([param EXCEPT !.imageDecodingCctf = value])

SetOutOfPrimaryColourspaceGamut(value) ==
    /\ IsImageKind
    /\ StoreAndAdd([param EXCEPT !.outOfPrimaryColourspaceGamut = value])

SetOutOfSecondaryColourspaceGamut(value) ==
    /\ IsImageKind
    /\ StoreAndAdd([param EXCEPT !.outOfSecondaryColourspaceGamut = value])

SetOutOfPointerGamut(value) ==
    /\ kind = "ImageVisual"
    /\ StoreAndAdd([param EXCEPT !.outOfPointerGamut = value])

SetSaturate(value) ==
    /\ IsImageKind
    /\ StoreAndAdd([param EXCEPT !.saturate = value])

SetSubSampling(value) ==
    /\ kind = "ImageScatterVisual"
    /\ StoreAndAdd([param EXCEPT !.subSampling = value])

\* --------------------------------------------- rendering attribute setters

\* Every renderable but the one the Visual currently holds is left as it is:
\* what a setter that wrote this._visual alone would do.
MutateCurrent(field, value) ==
    [i \in DOMAIN objects |->
        IF i = visual THEN [objects[i] EXCEPT !.material[field] = value]
        ELSE objects[i]]

\* Object.keys(this.cache).forEach: the material of every renderable the
\* cache holds gets the value; the other renderables are left as they are.
MutateCached(field, value) ==
    [i \in DOMAIN objects |->
        IF i \in Range(cache) THEN [objects[i] EXCEPT !.material[field] = value]
        ELSE objects[i]]

\* A setter that stores its value and writes the cached materials.
StoreAndMutate(p, field, value) ==
    /\ param' = p
    /\ objects' = MutateCached(field, value)
    /\ adds' = 0
    /\ fetches' = 0
    /\ thrown' = "none"
    /\ UNCHANGED <<parent, visible, cache, visual, loading, children, pending,
                   fetchCount, lastRoute>>
    /\ Fixed

SetUniformOpacity(value) ==
    StoreAndMutate([param EXCEPT !.uniformOpacity = value], "opacity", value)

\* The wireframe setter as it was before it wrote the materials: it stored
\* the value and called add().
SetWireframeAndAdd(value) ==
    /\ kind = "ColourspaceVisual"
    /\ StoreAndAdd([param EXCEPT !.wireframe = value])

SetWireframe(value) ==
    /\ kind = "ColourspaceVisual"
    /\ StoreAndMutate([param EXCEPT !.wireframe = value], "wireframe", value)

SetPointSize(value) ==
    /\ kind = "ImageScatterVisual"
    /\ StoreAndMutate([param EXCEPT !.pointSize = value], "size", value)

\* The "visible" setter: the flag of every cached renderable is written.
\* A "visible" setter that writes the current renderable alone.
SetVisibleCurrent(value) ==
    /\ visible' = value
    /\ objects' = [i \in DOMAIN objects |->
                      IF i = visual
                      THEN [objects[i] EXCEPT !.visible = value]
                      ELSE objects[i]]
    /\ adds' = 0
    /\ fetches' = 0
    /\ thrown' = "none"
    /\ UNCHANGED <<param, parent, cache, visual, loading, children,
                   pending, fetchCount, lastRoute>>
    /\ Fixed

SetVisible(value) ==
    /\ visible' = value
    /\ objects' = [i \in DOMAIN objects |->
                      IF i \in Range(cache)
                      THEN [objects[i] EXCEPT !.visible = value]
                      ELSE objects[i]]
    /\ adds' = 0
    /\ fetches' = 0
    /\ thrown' = "none"
    /\ UNCHANGED <<param, parent, cache, visual, loading, children,
                   pending, fetchCount, lastRoute>>
    /\ Fixed

\* The "parent" setter: the Visual's renderables leave the old parent, the
\* current renderable, if any, is attached to the new one.
\* A setter that moves the current renderable and leaves the others.
SetParentKeepsOthers(value) ==
    /\ parent' = value
    /\ children' = IF visual # 0 THEN ObjectAdd(children, value, visual)
                   ELSE children
    /\ adds' = 0
    /\ fetches' = 0
    /\ thrown' = "none"
    /\ UNCHANGED <<param, visible, cache, visual, loading, objects,
                   pending, fetchCount, lastRoute>>
    /\ Fixed

SetParent(value) ==
    LET removed == removeObjectByName(objects, children, parent, name)
    IN  /\ parent' = value
        /\ children' = IF visual # 0 THEN ObjectAdd(removed, value, visual)
                       ELSE removed
        /\ adds' = 0
        /\ fetches' = 0
        /\ thrown' = "none"
        /\ UNCHANGED <<param, visible, cache, visual, loading, objects,
                       pending, fetchCount, lastRoute>>
        /\ Fixed

\* ----------------------------------------------------------- specification

Next ==
    \/ Add
    \/ \E value \in ColourspaceValues : SetColourspace(value)
    \/ \E value \in ColourspaceModelValues : SetColourspaceModel(value)
    \/ \E value \in SegmentsValues : SetSegments(value)
    \/ \E value \in UniformColourValues : SetUniformColour(value)
    \/ \E value \in ImageValues : SetImage(value)
    \/ \E value \in PrimaryColourspaceValues : SetPrimaryColourspace(value)
    \/ \E value \in SecondaryColourspaceValues : SetSecondaryColourspace(value)
    \/ \E value \in ImageColourspaceValues : SetImageColourspace(value)
    \/ \E value \in CctfValues : SetImageDecodingCctf(value)
    \/ \E value \in OutOfGamutValues : SetOutOfPrimaryColourspaceGamut(value)
    \/ \E value \in OutOfGamutValues : SetOutOfSecondaryColourspaceGamut(value)
    \/ \E value \in OutOfGamutValues : SetOutOfPointerGamut(value)
    \/ \E value \in SaturateValues : SetSaturate(value)
    \/ \E value \in SubSamplingValues : SetSubSampling(value)
    \/ \E value \in OpacityValues : SetUniformOpacity(value)
    \/ \E value \in WireframeValues : SetWireframe(value)
    \/ \E value \in PointSizeValues : SetPointSize(value)
    \/ \E req \in pending : FetchLoad(req)
    \/ \E req \in pending : FetchError(req)

\* The Visual under its parameter setters, its material setters, add() and
\* the loader callbacks.
Spec == Init /\ [][Next]_vars

\* The same Visual when its "visible" setter is called as well.  The flag
\* is read by create() alone and written to the renderables' own flag.
NextVisible ==
    \/ Next
    \/ \E value \in BOOLEAN : SetVisible(value)

SpecVisible == Init /\ [][NextVisible]_vars

\* The same Visual when its "parent" setter is called as well.
NextParent ==
    \/ Next
    \/ \E value \in Parents : SetParent(value)

SpecParent == Init /\ [][NextParent]_vars

\* ------------------------------------------------------------------- views

Views == {"GamutView", "ImageView"}

\* The inputs of the views' setters.
ViewSecondaryColourspaceValues == {"DCI-P3", "sRGB"}
ViewImageColourspaceValues == {"Primary", "Secondary", "Invalid"}

\* The Visual properties of a view, in the order isLoading() reads them.
VisualProperties(v) ==
    IF v = "GamutView"
    THEN <<"viewAxesVisual", "visibleSpectrumVisual", "spectralLocusVisual",
           "pointerGamutVisual", "secondaryColourspaceVisual",
           "primaryColourspaceVisual", "imageScatterVisual",
           "imageScatterOverlayVisual">>
    ELSE <<"imageVisual", "imageOverlayVisual">>

\* The overlay Visual animate() pulses.
OverlayProperty(v) ==
    IF v = "GamutView" THEN "imageScatterOverlayVisual"
    ELSE "imageOverlayVisual"

\* The class addXVisual constructs for each property.
ClassOf(property) ==
    CASE property = "viewAxesVisual" -> "ViewAxesVisual"
      [] property = "visibleSpectrumVisual" -> "VisibleSpectrumVisual"
      [] property = "spectralLocusVisual" -> "SpectralLocusVisual"
      [] property = "pointerGamutVisual" -> "PointerGamutVisual"
      [] property \in {"secondaryColourspaceVisual",
                       "primaryColourspaceVisual"} -> "ColourspaceVisual"
      [] property \in {"imageScatterVisual",
                       "imageScatterOverlayVisual"} -> "ImageScatterVisual"
      [] property \in {"imageVisual", "imageOverlayVisual"} -> "ImageVisual"

\* The name addXVisual gives the Visual, where it gives one.
NameOf(property) ==
    CASE property = "secondaryColourspaceVisual" -> "secondary-colourspace-visual"
      [] property = "primaryColourspaceVisual" -> "primary-colourspace-visual"
      [] property = "imageScatterOverlayVisual" -> "image-scatter-overlay-visual"
      [] property = "imageVisual" -> "image-visual"
      [] property = "imageOverlayVisual" -> "image-overlay-visual"
      [] OTHER -> DefaultName(ClassOf(property))

ImageSettings ==
    {<<"image", "image">>, <<"primaryColourspace", "primaryColourspace">>,
     <<"secondaryColourspace", "secondaryColourspace">>,
     <<"imageColourspace", "imageColourspace">>,
     <<"imageDecodingCctf", "imageDecodingCctf">>}

\* The settings addXVisual takes from the view: pairs of the Visual's
\* setting and the view's field it is read from.
GivenSettings(property) ==
    CASE property \in {"viewAxesVisual", "visibleSpectrumVisual",
                       "pointerGamutVisual"} ->
            {<<"colourspaceModel", "colourspaceModel">>}
      [] property \in {"spectralLocusVisual", "secondaryColourspaceVisual"} ->
            {<<"colourspace", "secondaryColourspace">>,
             <<"colourspaceModel", "colourspaceModel">>}
      [] property = "primaryColourspaceVisual" ->
            {<<"colourspace", "primaryColourspace">>,
             <<"colourspaceModel", "colourspaceModel">>}
      [] property \in {"imageScatterVisual", "imageScatterOverlayVisual"} ->
            ImageSettings \cup {<<"colourspaceModel", "colourspaceModel">>}
      [] property \in {"imageVisual", "imageOverlayVisual"} -> ImageSettings

\* The settings addXVisual fixes, whatever the view holds.
FixedSettings(property) ==
    CASE property = "secondaryColourspaceVisual" ->
            [wireframe |-> TRUE, uniformOpacity |-> 25]
      [] property = "imageScatterOverlayVisual" -> [uniformOpacity |-> 50]
      [] property = "imageOverlayVisual" -> [uniformOpacity |-> 50, depth |-> 50]
      [] OTHER -> [f \in {} |-> 0]

\* The parameter fields of the Visual addXVisual constructs, from the default
\* settings of the call merged over the defaults of the class.
ConstructedParam(property, vp) ==
    LET default == DefaultParam(ClassOf(property))
        fixed == FixedSettings(property)
        given == GivenSettings(property)
    IN  [f \in DOMAIN default |->
            IF \E g \in given : g[1] = f
            THEN vp[(CHOOSE g \in given : g[1] = f)[2]]
            ELSE IF f \in DOMAIN fixed THEN fixed[f] ELSE default[f]]

\* A Visual of a view as its constructor leaves it.  Of the renderables, the
\* routes they were fetched from are kept; the requests in flight are the bag
\* of their routes.
Constructed(property, vp) ==
    [class |-> ClassOf(property), name |-> NameOf(property),
     param |-> ConstructedParam(property, vp),
     cache |-> {}, visual |-> Undefined, loading |-> FALSE,
     pending |-> EmptyBag,
     lastRoute |-> <<>>, adds |-> 0]

\* add() on the Visual c of a view, n fetches having been issued; the result
\* is the Visual and the count afterwards.  ViewAxesVisual overrides add()
\* and fetch() and never writes the loading flag.
ConstituentAdd(c, n) ==
    LET r == RouteOf(c.class, colourAnalysisServer, c.param)
        called == [c EXCEPT !.lastRoute = r, !.adds = c.adds + 1]
        axes == c.class = "ViewAxesVisual"
    IN  IF r \in c.cache
        THEN [c |-> [called EXCEPT !.visual = r,
                                   !.loading = IF axes THEN c.loading ELSE FALSE],
              n |-> n]
        ELSE [c |-> [called EXCEPT !.pending = c.pending (+) SetToBag({r}),
                                   !.loading = IF axes THEN c.loading ELSE TRUE],
              n |-> n + 1]

\* A route parameter setter of the Visual c: the field is stored, then add().
ConstituentSet(c, n, field, value) ==
    ConstituentAdd([c EXCEPT !.param[field] = value], n)

\* The Visuals a view setter writes, in order, with the field it writes.
Targets(v, field) ==
    IF v = "GamutView"
    THEN CASE field = "primaryColourspace" ->
                <<<<"primaryColourspaceVisual", "colourspace">>,
                  <<"imageScatterVisual", field>>,
                  <<"imageScatterOverlayVisual", field>>>>
           [] field = "secondaryColourspace" ->
                <<<<"secondaryColourspaceVisual", "colourspace">>,
                  <<"imageScatterVisual", field>>,
                  <<"imageScatterOverlayVisual", field>>>>
           [] field = "colourspaceModel" ->
                [i \in 1..8 |-> <<VisualProperties("GamutView")[i], field>>]
           [] OTHER ->
                <<<<"imageScatterVisual", field>>,
                  <<"imageScatterOverlayVisual", field>>>>
    ELSE CASE field \in {"image", "imageDecodingCctf"} ->
                <<<<"imageVisual", field>>, <<"imageOverlayVisual", field>>>>
           [] field = "colourspaceModel" -> <<>>
           [] OTHER -> <<<<"imageOverlayVisual", field>>>>

\* The writes of a view setter, one after the other, on the Visuals that
\* exist.
RECURSIVE Cascade(_, _, _, _)
Cascade(cs, n, targets, value) ==
    IF targets = <<>>
    THEN [constituents |-> cs, count |-> n]
    ELSE LET t == Head(targets)
         IN  IF t[1] \in DOMAIN cs
             THEN LET res == ConstituentSet(cs[t[1]], n, t[2], value)
                  IN  Cascade([cs EXCEPT ![t[1]] = res.c], res.n,
                              Tail(targets), value)
             ELSE Cascade(cs, n, Tail(targets), value)

\* The fields of a standalone Visual, which no operation of a view writes.
VisualUnchanged ==
    UNCHANGED <<kind, colourAnalysisServer, parent, visible, param, cache,
                visual, loading, objects, children, pending, fetchCount,
                lastRoute, adds, fetches>>

\* The Visuals of the view at the start of a handler: none has called add().
ResetAdds(cs) == [s \in DOMAIN cs |-> [cs[s] EXCEPT !.adds = 0]]

\* A handler of the view that returns, leaving the Visuals cs and the fetch
\* count n.
ViewReturn(cs, n) ==
    /\ n <= MaxViewFetches
    /\ constituents' = cs
    /\ viewFetchCount' = n
    /\ thrown' = "none"
    /\ returned' = "none"
    /\ UNCHANGED <<viewKind, animation, routeLog, settings, fade>>
    /\ VisualUnchanged

\* A handler of the view that raises before it has written anything.
ViewThrow(message) ==
    /\ thrown' = message
    /\ returned' = "none"
    /\ constituents' = ResetAdds(constituents)
    /\ UNCHANGED <<viewKind, viewParam, viewFetchCount, animation, routeLog, settings, fade>>
    /\ VisualUnchanged

\* A shared parameter setter of the view: the field is stored, then the
\* setters of the dependent Visuals are called.
ViewSet(field, value) ==
    /\ viewKind \in Views
    /\ viewParam' = [viewParam EXCEPT ![field] = value]
    /\ LET res == Cascade(ResetAdds(constituents), viewFetchCount,
                          Targets(viewKind, field), value)
       IN  ViewReturn(res.constituents, res.count)

ViewSetImage(value) == ViewSet("image", value)

ViewSetPrimaryColourspace(value) == ViewSet("primaryColourspace", value)

ViewSetSecondaryColourspace(value) == ViewSet("secondaryColourspace", value)

\* A setter that stores the value before it validates it.
ViewSetImageColourspaceStoresFirst(value) ==
    /\ viewKind \in Views
    /\ IF value \notin {"Primary", "Secondary"}
       THEN /\ viewParam' = [viewParam EXCEPT !.imageColourspace = value]
            /\ thrown' = ImageColourspaceError
            /\ returned' = "none"
            /\ constituents' = ResetAdds(constituents)
            /\ UNCHANGED <<viewKind, viewFetchCount, animation, routeLog, settings, fade>>
            /\ VisualUnchanged
       ELSE ViewSet("imageColourspace", value)

ViewSetImageColourspace(value) ==
    /\ viewKind \in Views
    /\ IF value \notin {"Primary", "Secondary"}
       THEN ViewThrow(ImageColourspaceError)
       ELSE ViewSet("imageColourspace", value)

ViewSetImageDecodingCctf(value) == ViewSet("imageDecodingCctf", value)

ViewSetColourspaceModel(value) == ViewSet("colourspaceModel", value)

\* addXVisual() for the property X, called without settings: a new Visual
\* replaces the one the property held, and add() is called on it.
AddVisual(property) ==
    /\ viewKind \in Views
    /\ \E i \in DOMAIN VisualProperties(viewKind) :
          VisualProperties(viewKind)[i] = property
    /\ LET res == ConstituentAdd(Constructed(property, viewParam),
                                 viewFetchCount)
           cs == ResetAdds(constituents)
       IN  ViewReturn([s \in DOMAIN cs \cup {property} |->
                          IF s = property THEN res.c ELSE cs[s]], res.n)
    /\ UNCHANGED viewParam

\* The onLoad callback of a Visual of the view: the renderable is created,
\* cached under the requested route and attached.
ViewFetchLoad(property, r) ==
    /\ property \in DOMAIN constituents
    /\ BagIn(r, constituents[property].pending)
    /\ LET cs == ResetAdds(constituents)
           c == cs[property]
       IN  ViewReturn([cs EXCEPT ![property] =
                          [c EXCEPT !.pending = c.pending (-) SetToBag({r}),
                                    !.cache = c.cache \cup {r},
                                    !.visual = r,
                                    !.loading = IF c.class = "ViewAxesVisual"
                                                THEN c.loading ELSE FALSE]],
                      viewFetchCount)
    /\ UNCHANGED viewParam

\* A request of a Visual of the view fails: no callback of the Visual runs.
ViewFetchError(property, r) ==
    /\ property \in DOMAIN constituents
    /\ BagIn(r, constituents[property].pending)
    /\ LET cs == ResetAdds(constituents)
           c == cs[property]
       IN  ViewReturn([cs EXCEPT ![property] =
                          [c EXCEPT !.pending = c.pending (-) SetToBag({r})]],
                      viewFetchCount)
    /\ UNCHANGED viewParam

\* The chain of || over the loading flags of the properties, left to right:
\* "true" at the first flag that is set, "TypeError" at the first property
\* that is undefined, "false" at the end.
RECURSIVE LoadingChain(_, _)
LoadingChain(cs, properties) ==
    IF properties = <<>> THEN "false"
    ELSE IF Head(properties) \notin DOMAIN cs THEN "TypeError"
    ELSE IF cs[Head(properties)].loading THEN "true"
    ELSE LoadingChain(cs, Tail(properties))

\* isLoading() of the view.
ViewIsLoading ==
    /\ viewKind \in Views
    /\ LET result == LoadingChain(constituents, VisualProperties(viewKind))
       IN  /\ thrown' = IF result = "TypeError" THEN result ELSE "none"
           /\ returned' = IF result = "TypeError" THEN "none" ELSE result
    /\ constituents' = ResetAdds(constituents)
    /\ UNCHANGED <<viewKind, viewParam, viewFetchCount, animation, routeLog, settings, fade>>
    /\ VisualUnchanged

\* The calls one run of animate() makes, in order: the overlay is pulsed when
\* it has a renderable, the next frame is requested, the controls are
\* updated, the scene is rendered.
FrameCalls ==
    LET overlay == OverlayProperty(viewKind)
    IN  (IF /\ overlay \in DOMAIN constituents
            /\ constituents[overlay].visual # Undefined
         THEN <<"opacity">> ELSE <<>>)
        \o <<"requestAnimationFrame", "update", "render">>

\* One run of animate(): the call of the page, or a frame callback.
Frame(calls, requests) ==
    /\ animation' = [animation EXCEPT !.calls = calls,
                                      !.requests = requests + 1,
                                      !.tick = 1 - animation.tick,
                                      !.log = FrameCalls]
    /\ thrown' = "none"
    /\ returned' = "none"
    /\ constituents' = ResetAdds(constituents)
    /\ UNCHANGED <<viewKind, viewParam, viewFetchCount, routeLog, settings, fade>>
    /\ VisualUnchanged

\* animate() called by the page.
ViewAnimate ==
    /\ viewKind \in Views
    /\ animation.calls < MaxAnimateCalls
    /\ Frame(animation.calls + 1, animation.requests)

\* A frame callback that requests no further frame.
AnimationFrameStops ==
    /\ viewKind \in Views
    /\ animation.requests > 0
    /\ animation' = [animation EXCEPT !.requests = animation.requests - 1,
                                      !.tick = 1 - animation.tick,
                                      !.log = <<"update", "render">>]
    /\ thrown' = "none"
    /\ returned' = "none"
    /\ constituents' = ResetAdds(constituents)
    /\ UNCHANGED <<viewKind, viewParam, viewFetchCount, routeLog, settings, fade>>
    /\ VisualUnchanged

\* The browser runs a requested frame callback.
AnimationFrame ==
    /\ viewKind \in Views
    /\ animation.requests > 0
    /\ Frame(animation.calls, animation.requests - 1)

\* The state of a program that has constructed no standalone Visual.
NoVisual ==
    /\ kind = Undefined
    /\ colourAnalysisServer = Undefined
    /\ parent = Undefined
    /\ visible = TRUE
    /\ param = [f \in {} |-> 0]
    /\ cache = [r \in {} |-> 0]
    /\ visual = 0
    /\ loading = FALSE
    /\ objects = <<>>
    /\ children = [p \in Parents |-> <<>>]
    /\ pending = {}
    /\ fetchCount = 0
    /\ lastRoute = <<>>
    /\ adds = 0
    /\ fetches = 0

\* A view as its constructor leaves it.
InitView ==
    /\ NoVisual
    /\ thrown = "none"
    /\ viewKind \in Views
    /\ viewParam = DefaultViewParam
    /\ constituents = [s \in {} |-> 0]
    /\ viewFetchCount = 0
    /\ animation = NoAnimation
    /\ returned = "none"
    /\ routeLog = <<>>
    /\ settings = NoSettings
    /\ fade = NoFade

\* The property names of the two views.
AllVisualProperties ==
    UNION {{VisualProperties(v)[i] : i \in DOMAIN VisualProperties(v)} :
           v \in Views}

NextView ==
    \/ \E value \in ImageValues : ViewSetImage(value)
    \/ \E value \in PrimaryColourspaceValues : ViewSetPrimaryColourspace(value)
    \/ \E value \in ViewSecondaryColourspaceValues :
          ViewSetSecondaryColourspace(value)
    \/ \E value \in ViewImageColourspaceValues : ViewSetImageColourspace(value)
    \/ \E value \in CctfValues : ViewSetImageDecodingCctf(value)
    \/ \E value \in ColourspaceModelValues : ViewSetColourspaceModel(value)
    \/ \E property \in AllVisualProperties : AddVisual(property)
    \/ \E property \in DOMAIN constituents :
          \E r \in BagToSet(constituents[property].pending) :
             \/ ViewFetchLoad(property, r)
             \/ ViewFetchError(property, r)
    \/ ViewIsLoading

SpecView == InitView /\ [][NextView]_vars

\* The page adds the Visuals, calls the setters of the image colourspace,
\* isLoading() and animate(); the requests complete or fail and the browser
\* runs the frames that were requested.
NextAnimate ==
    \/ ViewAnimate
    \/ AnimationFrame
    \/ \E value \in ViewImageColourspaceValues : ViewSetImageColourspace(value)
    \/ \E property \in AllVisualProperties : AddVisual(property)
    \/ \E property \in DOMAIN constituents :
          \E r \in BagToSet(constituents[property].pending) :
             \/ ViewFetchLoad(property, r)
             \/ ViewFetchError(property, r)
    \/ ViewIsLoading

\* The browser runs every frame callback that stays requested.
SpecAnimate == InitView /\ [][NextAnimate]_vars /\ WF_vars(AnimationFrame)

\* ------------------------------------------------------------------ errors

\* The properties of a standalone Visual whose setter only raises.
ReadOnlyProperties(k) ==
    IF k \notin Kinds \cup {"Visual"} THEN {}
    ELSE {"name", "cache", "loading"}
         \cup (IF k = "ImageVisual" THEN {"depth"} ELSE {})
         \cup (IF k = "ColourspaceVisual"
               THEN {"wireframeColour", "wireframeOpacity"} ELSE {})

\* The properties of a view whose setter only raises.
ViewReadOnlyProperties(v) ==
    IF v \notin Views THEN {}
    ELSE {"container", "renderer", "scene", "camera", "controls"}
         \cup {VisualProperties(v)[i] : i \in DOMAIN VisualProperties(v)}

\* The message of the setter: the loading setter names the cache, the
\* wireframeColour setter names wireframeOpacity.
ReadOnlyMessage(property) ==
    CASE property = "loading" -> "\"cache\" property is read only!"
      [] property = "wireframeColour" ->
            "\"wireframeOpacity\" property is read only!"
      [] OTHER -> "\"" \o property \o "\" property is read only!"

ReadOnlyMessages ==
    {ReadOnlyMessage(property) :
        property \in UNION {ReadOnlyProperties(k) : k \in Kinds}
                     \cup UNION {ViewReadOnlyProperties(v) : v \in Views}}

\* An assignment the object ignores, as it does for a property that has a
\* getter and no setter.
AssignReadOnlyIgnored(property) ==
    /\ property \in ReadOnlyProperties(kind)
    /\ thrown' = "none"
    /\ adds' = 0
    /\ fetches' = 0
    /\ UNCHANGED <<param, parent, visible, cache, visual, loading, objects,
                   children, pending, fetchCount, lastRoute>>
    /\ Fixed

\* An assignment to a read-only property of the Visual.
AssignReadOnly(property) ==
    /\ property \in ReadOnlyProperties(kind)
    /\ Throw(ReadOnlyMessage(property))

\* An assignment to a read-only property of the view.
ViewAssignReadOnly(property) ==
    /\ property \in ViewReadOnlyProperties(viewKind)
    /\ ViewThrow(ReadOnlyMessage(property))

Unimplemented == "Method must be reimplemented in subclass!"

\* route() of the base class.
VisualRoute ==
    /\ kind = "Visual"
    /\ Throw(Unimplemented)

\* create() of the base class.
VisualCreate ==
    /\ kind = "Visual"
    /\ Throw(Unimplemented)

\* An add() whose route() returns an empty route.
VisualAddFetches ==
    /\ kind = "Visual"
    /\ children' = removeObjectByName(objects, children, parent, name)
    /\ fetch(<<>>)
    /\ loading' = TRUE
    /\ thrown' = "none"
    /\ adds' = 1
    /\ fetches' = 1
    /\ lastRoute' = <<>>
    /\ UNCHANGED <<param, parent, visible, cache, visual, objects>>
    /\ Fixed

\* add() of the base class: the renderables of its name are detached, then
\* route() raises.
VisualAdd ==
    /\ kind = "Visual"
    /\ children' = removeObjectByName(objects, children, parent, name)
    /\ thrown' = Unimplemented
    /\ adds' = 1
    /\ fetches' = 0
    /\ UNCHANGED <<param, parent, visible, cache, visual, loading, objects,
                   pending, fetchCount, lastRoute>>
    /\ Fixed

\* A Visual of the base class as its constructor leaves it.
InitBase ==
    /\ kind = "Visual"
    /\ colourAnalysisServer = Undefined
    /\ parent = "group1"
    /\ visible = TRUE
    /\ param = [f \in {} |-> 0]
    /\ cache = [r \in {} |-> 0]
    /\ visual = 0
    /\ loading = FALSE
    /\ objects = <<>>
    /\ children = [p \in Parents |-> <<>>]
    /\ pending = {}
    /\ fetchCount = 0
    /\ lastRoute = <<>>
    /\ adds = 0
    /\ fetches = 0
    /\ thrown = "none"
    /\ NoView

\* A program that has constructed a standalone Visual, of a concrete class or
\* of the base class, or a view.
InitErrors == Init \/ InitBase \/ InitView

\* The page adds the Visuals, the requests complete or fail, and the page
\* assigns to the read-only properties and calls the methods of the base
\* class.
NextErrors ==
    \/ kind \in Kinds /\ Add
    \/ kind \in Kinds /\ \E req \in pending : FetchLoad(req) \/ FetchError(req)
    \/ \E property \in ReadOnlyProperties(kind) : AssignReadOnly(property)
    \/ VisualRoute
    \/ VisualCreate
    \/ VisualAdd
    \/ kind = "Visual" /\ \E value \in BOOLEAN : SetVisible(value)
    \/ kind = "Visual" /\ \E value \in Parents : SetParent(value)
    \/ \E property \in AllVisualProperties : AddVisual(property)
    \/ \E property \in DOMAIN constituents :
          \E r \in BagToSet(constituents[property].pending) :
             \/ ViewFetchLoad(property, r)
             \/ ViewFetchError(property, r)
    \/ \E property \in ViewReadOnlyProperties(viewKind) :
          ViewAssignReadOnly(property)

SpecErrors == InitErrors /\ [][NextErrors]_vars

\* A program that has constructed a standalone Visual of a class that has
\* an image colourspace, or a view; the setters are called with invalid
\* values too.
InitValidation == (Init /\ IsImageKind) \/ InitView

\* The page adds the Visuals, the requests complete or fail, and the page
\* calls the imageColourspace setters.
NextValidation ==
    \/ kind \in Kinds /\ Add
    \/ kind \in Kinds /\ \E req \in pending : FetchLoad(req) \/ FetchError(req)
    \/ \E value \in ViewImageColourspaceValues : SetImageColourspace(value)
    \/ \E value \in SaturateValues : SetSaturate(value)
    \/ \E value \in ViewImageColourspaceValues : ViewSetImageColourspace(value)
    \/ \E property \in AllVisualProperties : AddVisual(property)
    \/ \E property \in DOMAIN constituents :
          \E r \in BagToSet(constituents[property].pending) :
             \/ ViewFetchLoad(property, r)
             \/ ViewFetchError(property, r)

SpecValidation == InitValidation /\ [][NextValidation]_vars

\* ------------------------------------------------------------------ claims

\* The renderables bearing the Visual's name that are attached under its
\* parent.
Attached == {children[parent][i] : i \in AttachedNamed(parent, name)}

\* The routes whose fetch has completed successfully.
Completed == {objects[i].data.route : i \in DOMAIN objects}

\* The renderable the latest response for route r produced.
LatestFor(r) ==
    CHOOSE i \in DOMAIN objects :
        /\ objects[i].data.route = r
        /\ \A j \in DOMAIN objects : objects[j].data.route = r => j <= i

\* C1: in every reachable state at most one renderable bearing the Visual's
\* name is attached under its parent.
C1_AtMostOneAttached ==
    Cardinality(AttachedNamed(parent, name)) <= 1

\* C2 as stated: an add() that immediately follows an add() for the same
\* route (the same setter value twice, or add() twice with unchanged
\* parameters) issues no fetch.
C2_SecondCallIssuesNoFetch ==
    [][(adds = 1 /\ adds' = 1 /\ lastRoute' = lastRoute) => fetches' = 0]_vars

\* C2 amended: an add() that immediately follows an add() for the same route
\* issues no fetch exactly when the route is a key of the cache at the call
\* (a fetch for it has completed); when it is not, the first fetch being
\* still in flight or not, the second call issues one more fetch.
C2_SecondCallFetchesUnlessCached ==
    [][(adds = 1 /\ adds' = 1 /\ lastRoute' = lastRoute) =>
          /\ lastRoute \in DOMAIN cache => fetches' = 0
          /\ lastRoute \notin DOMAIN cache =>
                /\ fetches' = 1
                /\ fetchCount' = fetchCount + 1
                /\ Cardinality(pending') = Cardinality(pending) + 1]_vars

\* C2 witness: exactly one fetch was issued, it has completed, and the latest
\* handler was an add() that hit the cache.
C2_Witness ==
    /\ adds = 1
    /\ fetches = 0
    /\ fetchCount = 1
    /\ pending = {}
    /\ lastRoute \in DOMAIN cache
    /\ visual = cache[lastRoute]

\* C3: once a fetch for route r has completed, r stays a key of the cache,
\* and every add() for r issues no fetch, makes cache[r] the current
\* renderable and the only one attached under the parent, and returns with
\* the loading flag false.
C3_CompletedRouteIsReused ==
    /\ Completed \subseteq DOMAIN cache
    /\ (adds = 1 /\ lastRoute \in Completed) =>
          /\ fetches = 0
          /\ visual = cache[lastRoute]
          /\ Attached = {cache[lastRoute]}
          /\ loading = FALSE

\* C3 witness: an add() reused a completed route while another fetch of the
\* Visual was still in flight.
C3_Witness ==
    /\ adds = 1
    /\ lastRoute \in Completed
    /\ pending # {}
    /\ Attached = {cache[lastRoute]}

\* C4: the cache holds, under each completed route, the renderable built from
\* the latest response for that route; renderables under distinct keys are
\* distinct, an entry stored for one route leaves the others as they are, and
\* an add() for any of the completed routes issues no fetch.
C4_RoutesCachedIndependently ==
    /\ DOMAIN cache = Completed
    /\ \A r \in DOMAIN cache : cache[r] = LatestFor(r)
    /\ \A r1, r2 \in DOMAIN cache : r1 # r2 => cache[r1] # cache[r2]
    /\ (adds = 1 /\ lastRoute \in Completed) => fetches = 0

\* C4 witness: two distinct routes are cached and the parameters were
\* switched back to the first one without a third fetch.
C4_Witness ==
    /\ Cardinality(DOMAIN cache) = 2
    /\ fetchCount = 2
    /\ adds = 1
    /\ fetches = 0
    /\ lastRoute = objects[1].data.route
    /\ objects[2].data.route # lastRoute
    /\ visual = 1
    /\ cache[objects[2].data.route] = 2

\* C5: an add() whose route is not a key of the cache issues a fetch, also
\* when a request for that route is already in flight.
C5_NoInFlightDeduplication ==
    (adds = 1 /\ lastRoute \notin DOMAIN cache) =>
        /\ fetches = 1
        /\ [id |-> fetchCount, route |-> lastRoute] \in pending

\* C5 witness: two requests for the same route are in flight at once.
C5_Witness ==
    \E a, b \in pending : a.id # b.id /\ a.route = b.route

\* C6: a response that arrives for a route other than the one the latest
\* add() asked for is installed all the same: its renderable becomes the
\* current one and is attached under the parent, the parameters staying as
\* they are.
C6_StaleResponseIsInstalled ==
    [][\A req \in pending :
          (FetchLoad(req) /\ lastRoute = route /\ req.route # route) =>
              /\ visual' = Len(objects')
              /\ visual' \in DOMAIN objects'
              /\ objects'[visual'].data = req
              /\ visual' \in Attached'
              /\ route' = route]_vars

\* C6 witness: the parameters went from P1 to P2 with the fetch for P1 in
\* flight, the response for P2 arrived first, both responses are processed,
\* and the current, attached renderable is the one built for P1.
C6_Witness ==
    /\ pending = {}
    /\ Len(objects) = 2
    /\ objects[1].data.id = 2
    /\ objects[2].data.id = 1
    /\ objects[1].data.route = route
    /\ objects[2].data.route # route
    /\ lastRoute = route
    /\ visual = 2
    /\ 2 \in Attached

\* C7: a request leaves the set of requests in flight only by its own
\* response; the response is converted by create(), stored in the cache under
\* the route of the request, whatever route() is by then and whatever the
\* cache held under that key, and attached under the parent.
C7_SupersededFetchCompletes ==
    [][\A req \in pending :
          /\ req \in pending' \/ FetchLoad(req) \/ FetchError(req)
          /\ FetchLoad(req) =>
                /\ Len(objects') = Len(objects) + 1
                /\ objects'[Len(objects')].data = req
                /\ DOMAIN cache' = DOMAIN cache \cup {req.route}
                /\ cache'[req.route] = Len(objects')
                /\ \A r \in DOMAIN cache : r # req.route => cache'[r] = cache[r]
                /\ Len(objects') \in Attached']_vars

\* C7 witness: two requests for one route were in flight, the response to
\* the superseded, first one arrived last, and it holds the cache entry.
C7_Witness ==
    /\ Len(objects) = 2
    /\ objects[1].data.id = 2
    /\ objects[2].data.id = 1
    /\ objects[1].data.route = objects[2].data.route
    /\ cache[objects[2].data.route] = 2

\* A call of a setter of a rendering-only attribute.
RenderingSetter ==
    \/ \E value \in OpacityValues : SetUniformOpacity(value)
    \/ \E value \in PointSizeValues : SetPointSize(value)
    \/ \E value \in WireframeValues : SetWireframe(value)
    \/ \E value \in BOOLEAN : SetVisible(value)

\* C8: a setter of a rendering-only attribute issues no fetch and leaves the
\* cache, the renderables attached to the parent, the current renderable and
\* the loading flag as they were.
C8_RenderingSetterKeepsLifecycle ==
    [][RenderingSetter =>
          /\ fetchCount' = fetchCount
          /\ pending' = pending
          /\ cache' = cache
          /\ children' = children
          /\ visual' = visual
          /\ loading' = loading]_vars

\* C8 witness: the opacity setter acted on an ImageVisual whose only fetch
\* had completed (the renderable was created opaque, with the material that
\* is not transparent), and the renderable is still current and attached.
C8_Witness ==
    /\ kind = "ImageVisual"
    /\ fetchCount = 1
    /\ pending = {}
    /\ visual = 1
    /\ Attached = {1}
    /\ loading = FALSE
    /\ objects[1].material.opacity = 75
    /\ objects[1].material.transparent = FALSE

\* C9: every renderable the cache holds carries the current rendering
\* attributes on its material, whether a setter wrote them or create() did
\* when the response arrived.
C9_CachedMaterialsAreCurrent ==
    \A r \in DOMAIN cache :
        LET m == objects[cache[r]].material
        IN  /\ m.opacity = param.uniformOpacity
            /\ kind = "ColourspaceVisual" => m.wireframe = param.wireframe
            /\ kind = "ImageScatterVisual" => m.size = param.pointSize

\* C9 witness: two renderables are cached, both created opaque, and both
\* carry the opacity set since, the one that is not attached included.
C9_Witness ==
    /\ kind = "ImageVisual"
    /\ Cardinality(DOMAIN cache) = 2
    /\ param.uniformOpacity = 75
    /\ Cardinality(Attached) = 1
    /\ \A r \in DOMAIN cache :
          /\ objects[cache[r]].material.transparent = FALSE
          /\ objects[cache[r]].material.opacity = 75

\* A call of a setter of a parameter whose value appears in route().
RouteParameterSetter ==
    \/ \E value \in ColourspaceValues : SetColourspace(value)
    \/ \E value \in ColourspaceModelValues : SetColourspaceModel(value)
    \/ \E value \in SegmentsValues : SetSegments(value)
    \/ \E value \in WireframeValues : SetWireframe(value)
    \/ \E value \in ImageValues : SetImage(value)
    \/ \E value \in PrimaryColourspaceValues : SetPrimaryColourspace(value)
    \/ \E value \in SecondaryColourspaceValues : SetSecondaryColourspace(value)
    \/ \E value \in ImageColourspaceValues : SetImageColourspace(value)
    \/ \E value \in CctfValues : SetImageDecodingCctf(value)
    \/ \E value \in OutOfGamutValues : SetOutOfPrimaryColourspaceGamut(value)
    \/ \E value \in OutOfGamutValues : SetOutOfSecondaryColourspaceGamut(value)
    \/ \E value \in OutOfGamutValues : SetOutOfPointerGamut(value)
    \/ \E value \in SaturateValues : SetSaturate(value)
    \/ \E value \in SubSamplingValues : SetSubSampling(value)

\* C10: every setter of a parameter whose value appears in route() calls
\* add() exactly once, and the route add() looked up is route() of the new
\* parameters.
C10_RouteSetterCallsAdd ==
    [][RouteParameterSetter => (adds' = 1 /\ lastRoute' = route')]_vars

\* C11: a step in which an imageColourspace setter, of a view or of a
\* Visual, raises its validation error writes nothing: the stored value, the
\* Visuals that depend on the view, the attached renderables, the requests
\* and the caches are those of the state before, and no add() was called.
C11_InvalidImageColourspaceRejected ==
    [][thrown' = ImageColourspaceError =>
          /\ UNCHANGED <<param, parent, visible, cache, visual, loading,
                         objects, children, pending, fetchCount, lastRoute>>
          /\ UNCHANGED <<viewParam, viewFetchCount, animation>>
          /\ constituents' = ResetAdds(constituents)
          /\ adds' = 0
          /\ fetches' = 0]_vars

\* C11 witness: a GamutView whose image scatter Visual exists, holds
\* "Secondary" and has a request in flight has rejected a value.
C11_Witness ==
    /\ thrown = ImageColourspaceError
    /\ viewKind = "GamutView"
    /\ viewParam.imageColourspace = "Secondary"
    /\ "imageScatterVisual" \in DOMAIN constituents
    /\ constituents["imageScatterVisual"].param.imageColourspace = "Secondary"
    /\ constituents["imageScatterVisual"].pending # EmptyBag
    /\ constituents["imageScatterVisual"].cache # {}

\* The route r holds the query parameter key with the value.
HasParameter(r, key, value) ==
    \E i \in 1..(Len(r) - 1) : r[i] = key /\ r[i + 1] = value

\* C12: when the imageColourspace setter of an ImageVisual or an
\* ImageScatterVisual is called with "Secondary", by the page or by the
\* setter of the view that owns the Visual, the route of the Visual holds
\* imageColourspace=Secondary afterwards, and the setter has called add()
\* once, which has taken the renderable of that route from the cache or
\* issued a request for that route.
C12_SecondaryImageColourspaceInRoute ==
    [][/\ SetImageColourspace("Secondary") =>
             /\ HasParameter(route', "imageColourspace=", "Secondary")
             /\ adds' = 1
             /\ lastRoute' = route'
             /\ IF route' \in DOMAIN cache
                THEN fetches' = 0 /\ visual' = cache[route']
                ELSE /\ fetches' = 1
                     /\ [id |-> fetchCount', route |-> route'] \in pending'
                     /\ pending' \ pending
                           = {[id |-> fetchCount', route |-> route']}
       /\ ViewSetImageColourspace("Secondary") =>
             \A i \in DOMAIN Targets(viewKind, "imageColourspace") :
                LET property == Targets(viewKind, "imageColourspace")[i][1]
                IN  property \in DOMAIN constituents =>
                       LET c == constituents'[property]
                           r == RouteOf(c.class, colourAnalysisServer, c.param)
                       IN  /\ HasParameter(r, "imageColourspace=", "Secondary")
                           /\ c.adds = 1
                           /\ c.lastRoute = r
                           /\ IF r \in constituents[property].cache
                              THEN /\ c.visual = r
                                   /\ c.pending = constituents[property].pending
                              ELSE c.pending = constituents[property].pending
                                                  (+) SetToBag({r})]_vars

\* C12 witness: an ImageVisual set to "Secondary" whose add() has issued the
\* request for the route holding imageColourspace=Secondary.
C12_Witness ==
    /\ kind = "ImageVisual"
    /\ param.imageColourspace = "Secondary"
    /\ adds = 1
    /\ fetches = 1
    /\ HasParameter(lastRoute, "imageColourspace=", "Secondary")
    /\ \E req \in pending : req.route = lastRoute /\ req.id = fetchCount

\* C13: every assignment to a read-only property, of a Visual or of a view,
\* raises the error of the property, and a step that raises such an error
\* writes nothing: the property and every other field keep their values.
C13_ReadOnlyAssignmentRaises ==
    [][/\ \A property \in ReadOnlyProperties(kind) :
             AssignReadOnly(property) => thrown' = ReadOnlyMessage(property)
       /\ \A property \in ViewReadOnlyProperties(viewKind) :
             ViewAssignReadOnly(property) =>
                thrown' = ReadOnlyMessage(property)
       /\ thrown' \in ReadOnlyMessages =>
             /\ UNCHANGED <<kind, param, parent, visible, cache, visual,
                            loading, objects, children, pending, fetchCount,
                            lastRoute>>
             /\ UNCHANGED <<viewKind, viewParam, viewFetchCount, animation>>
             /\ constituents' = ResetAdds(constituents)
             /\ adds' = 0
             /\ fetches' = 0]_vars

\* C13 witness: an ImageVisual with a cached renderable and a request in
\* flight has rejected an assignment to its depth.
C13_Witness ==
    /\ thrown = ReadOnlyMessage("depth")
    /\ kind = "ImageVisual"
    /\ param.depth = 0
    /\ DOMAIN cache # {}
    /\ pending # {}

\* C14: route(), create() and add() of the base class raise the
\* unimplemented-method error, and none of them issues a request, writes the
\* cache or sets the loading flag.
C14_UnimplementedMethodsRaise ==
    [][(VisualRoute \/ VisualCreate \/ VisualAdd) =>
          /\ thrown' = Unimplemented
          /\ UNCHANGED <<fetchCount, pending, cache, visual, loading, objects>>
          /\ fetches' = 0]_vars

\* C14 witness: add() has been called on a Visual of the base class and has
\* raised, no request having been issued.
C14_Witness ==
    /\ kind = "Visual"
    /\ adds = 1
    /\ thrown = Unimplemented
    /\ fetchCount = 0
    /\ pending = {}
    /\ DOMAIN cache = {}
    /\ parent = "group2"

\* The Visual c, constructed for the property, holds the view's value of
\* every setting addXVisual read from the view.
HoldsViewValues(property, c, vp) ==
    \A g \in GivenSettings(property) : c.param[g[1]] = vp[g[2]]

\* C15: in a GamutView, every Visual that exists holds the view's current
\* value of each shared parameter it was constructed with.
C15_GamutViewVisualsHoldViewValues ==
    viewKind = "GamutView" =>
       \A property \in DOMAIN constituents :
          HoldsViewValues(property, constituents[property], viewParam)

\* The fields the ImageView setters of C16 write.
ImageViewColourspaceFields ==
    {"primaryColourspace", "secondaryColourspace", "imageColourspace"}

\* C16: in an ImageView, when the primaryColourspace, secondaryColourspace
\* or imageColourspace setter returns, the image Visual and the image
\* overlay Visual that exist hold the view's new value, and each has called
\* add() once, for the route of its new parameters.
C16_ImageViewSettersReachBothVisuals ==
    [][(/\ viewKind = "ImageView"
        /\ thrown' = "none"
        /\ \/ \E value \in PrimaryColourspaceValues :
                 ViewSetPrimaryColourspace(value)
           \/ \E value \in ViewSecondaryColourspaceValues :
                 ViewSetSecondaryColourspace(value)
           \/ \E value \in ViewImageColourspaceValues :
                 ViewSetImageColourspace(value)) =>
          \A property \in DOMAIN constituents' :
             LET c == constituents'[property]
             IN  /\ \A field \in ImageViewColourspaceFields :
                       c.param[field] = viewParam'[field]
                 /\ c.adds = 1
                 /\ c.lastRoute
                       = RouteOf(c.class, colourAnalysisServer, c.param)]_vars

\* C17: isLoading() returns, and what it returns is whether some Visual of
\* the view that exists has its loading flag set.
C17_IsLoadingIsTheDisjunction ==
    [][ViewIsLoading =>
          /\ thrown' = "none"
          /\ returned' = BoolString(\E property \in DOMAIN constituents :
                                       constituents[property].loading)]_vars

\* In the sequence log, a call of a comes before a call of b.
Precedes(log, a, b) ==
    \E i, j \in DOMAIN log : i < j /\ log[i] = a /\ log[j] = b

\* C18: once animate() has been called the frame loop goes on for ever.
\* Every frame callback requests the next frame, then updates the controls,
\* then renders; no step of the view takes the last requested frame away;
\* after one call of animate() exactly one frame callback is requested
\* between frames; and frames keep being run.
C18_FrameLoopNeverStops ==
    /\ [][AnimationFrame =>
             /\ animation'.requests = animation.requests
             /\ Precedes(animation'.log, "requestAnimationFrame", "update")
             /\ Precedes(animation'.log, "update", "render")]_vars
    /\ [][animation.requests > 0 => animation'.requests > 0]_vars
    /\ [](animation.calls = 1 => animation.requests = 1)
    /\ [](animation.calls >= 1 =>
             <>(animation.tick = 0) /\ <>(animation.tick = 1))

\* C18 witness: after one call of animate(), a frame callback has run in an
\* ImageView whose overlay has a renderable, and one callback is requested.
C18_Witness ==
    /\ viewKind = "ImageView"
    /\ animation.calls = 1
    /\ animation.tick = 0
    /\ animation.requests = 1
    /\ animation.log = <<"opacity", "requestAnimationFrame", "update", "render">>

\* ------------------------------------------------------ routes as cache keys

\* The concrete classes whose route() is in the source.
RouteKinds ==
    Kinds \cup {"SpectralLocusVisual", "PointerGamutVisual", "ViewAxesVisual"}

\* window.colourAnalysisServer as the page sets it before the program runs:
\* left undefined, or the address of a server.
ServerValues == {Undefined, "http://localhost:5000"}

\* The parameter fields a constructor of class k leaves, over the settings it
\* is given.
RouteSettings(k) ==
    CASE k = "ColourspaceVisual" ->
            {[DefaultParam(k) EXCEPT !.colourspace = c] :
                c \in ColourspaceValues}
      [] k \in {"ImageVisual", "ImageScatterVisual"} ->
            {[DefaultParam(k) EXCEPT !.imageColourspace = c] :
                c \in ImageColourspaceValues}
      [] k = "SpectralLocusVisual" ->
            {[DefaultParam(k) EXCEPT !.colourspace = c] :
                c \in ColourspaceValues}
      [] k = "PointerGamutVisual" ->
            {[DefaultParam(k) EXCEPT !.uniformOpacity = o] :
                o \in OpacityValues}
      [] k = "ViewAxesVisual" -> {DefaultParam(k)}

\* A Visual of a concrete class as its constructor leaves it.
InitRoute ==
    /\ kind \in RouteKinds
    /\ colourAnalysisServer \in ServerValues
    /\ parent = "group1"
    /\ visible = TRUE
    /\ param \in RouteSettings(kind)
    /\ cache = [r \in {} |-> 0]
    /\ visual = 0
    /\ loading = FALSE
    /\ objects = <<>>
    /\ children = [p \in Parents |-> <<>>]
    /\ pending = {}
    /\ fetchCount = 0
    /\ lastRoute = <<>>
    /\ adds = 0
    /\ fetches = 0
    /\ thrown = "none"
    /\ NoView

\* A call of route(): it returns the string and writes nothing.  The call is
\* recorded with the parameter fields it was made on.
CallRoute ==
    /\ Len(routeLog) < MaxRouteCalls
    /\ routeLog' = Append(routeLog, [param |-> param, route |-> route])
    /\ UNCHANGED <<kind, colourAnalysisServer, parent, visible, param, cache,
                   visual, loading, objects, children, pending, fetchCount,
                   lastRoute, adds, fetches, thrown, viewKind, viewParam,
                   constituents, viewFetchCount, animation, returned, settings, fade>>

\* The construction of another Visual of the same class, on a scene of its
\* own, with the settings p; the calls that follow are made on it.
NewVisual(p) ==
    /\ param' = p
    /\ parent' = "group1"
    /\ visible' = TRUE
    /\ cache' = [r \in {} |-> 0]
    /\ visual' = 0
    /\ loading' = FALSE
    /\ objects' = <<>>
    /\ children' = [q \in Parents |-> <<>>]
    /\ pending' = {}
    /\ fetchCount' = 0
    /\ lastRoute' = <<>>
    /\ adds' = 0
    /\ fetches' = 0
    /\ thrown' = "none"
    /\ Fixed

NextRoute ==
    \/ CallRoute
    \/ \E p \in RouteSettings(kind) : NewVisual(p)
    \/ \E value \in BOOLEAN : SetVisible(value)
    \/ \E value \in ColourspaceValues : SetColourspace(value)
    \/ \E value \in ImageColourspaceValues : SetImageColourspace(value)
    \/ kind \in Kinds /\ \E req \in pending : FetchLoad(req)

SpecRoute == InitRoute /\ [][NextRoute]_vars

\* C19: when window.colourAnalysisServer is defined, route() of every concrete
\* Visual is that base URL followed by the bare route; when it is undefined,
\* route() is the bare route.
BareRoute(k, p) == RouteOf(k, Undefined, p)

C19_RoutePrefixedByServer ==
    \A i \in DOMAIN routeLog :
        routeLog[i].route =
            IF colourAnalysisServer # Undefined
            THEN <<colourAnalysisServer>> \o BareRoute(kind, routeLog[i].param)
            ELSE BareRoute(kind, routeLog[i].param)

C21_CacheWrittenByCompletionOnly ==
    [][/\ DOMAIN cache \subseteq DOMAIN cache'
       /\ cache' # cache =>
             \E req \in pending \ pending' :
                /\ Len(objects') = Len(objects) + 1
                /\ DOMAIN cache' = DOMAIN cache \cup {req.route}
                /\ cache'[req.route] = Len(objects')
                /\ \A k \in DOMAIN cache \ {req.route} : cache'[k] = cache[k]
       /\ adds' > 0 \/ fetchCount' # fetchCount \/ param' # param
             => cache' = cache]_vars

\* Two keys are bound and an add() has just reused one of them.
C21_Witness ==
    /\ Cardinality(DOMAIN cache) = 2
    /\ adds = 1
    /\ fetches = 0
    /\ lastRoute \in DOMAIN cache
    /\ pending = {}

\* C22: when a fetch fails, the failure is swallowed: no exception is raised,
\* no retry fetch is issued, the cache is unchanged and no renderable is
\* attached to the parent for that route; a later add() with the same route
\* issues a new fetch.
C22_FetchFailureSwallowed ==
    /\ [][\A req \in pending :
             req \notin pending' /\ Len(objects') = Len(objects) =>
                /\ thrown' = "none"
                /\ fetchCount' = fetchCount
                /\ pending' = pending \ {req}
                /\ cache' = cache
                /\ children' = children
                /\ visual' = visual
                /\ objects' = objects]_vars
    /\ [][adds' = 1 /\ lastRoute' \notin Completed => fetches' = 1]_vars

\* The first request has failed and an add() with the same route has issued
\* the second one.
C22_Witness ==
    /\ fetchCount = 2
    /\ objects = <<>>
    /\ cache = [r \in {} |-> 0]
    /\ pending = {[id |-> 2, route |-> route]}
    /\ adds = 1
    /\ fetches = 1
    /\ lastRoute = route
    /\ thrown = "none"
    /\ \A p \in Parents : children[p] = <<>>

\* ---------------------------------------------------- the scene of a view

\* The visual groups of a GamutView, in the order its constructor adds them
\* to the scene.
GamutViewGroups ==
    <<"visible-spectrum-visual-group", "spectral-locus-visual-group",
      "pointer-gamut-visual-group", "secondary-colourspace-visual-group",
      "primary-colourspace-visual-group", "image-scatter-visual-group",
      "image-scatter-overlay-visual-group">>

Groups == {GamutViewGroups[i] : i \in DOMAIN GamutViewGroups}

\* The Visuals of a GamutView that are bound to a group.
GroupProperties ==
    {"visibleSpectrumVisual", "spectralLocusVisual", "pointerGamutVisual",
     "secondaryColourspaceVisual", "primaryColourspaceVisual",
     "imageScatterVisual", "imageScatterOverlayVisual"}

\* A binding where the two colourspace Visuals share one group.
GroupOfByClass(property) ==
    CASE property = "visibleSpectrumVisual" -> "visible-spectrum-visual-group"
      [] property = "spectralLocusVisual" -> "spectral-locus-visual-group"
      [] property = "pointerGamutVisual" -> "pointer-gamut-visual-group"
      [] property = "secondaryColourspaceVisual" ->
            "primary-colourspace-visual-group"
      [] property = "primaryColourspaceVisual" ->
            "primary-colourspace-visual-group"
      [] property = "imageScatterVisual" -> "image-scatter-visual-group"
      [] property = "imageScatterOverlayVisual" ->
            "image-scatter-overlay-visual-group"

\* The group addXVisual gives the Visual as its parent.
GroupOf(property) ==
    CASE property = "visibleSpectrumVisual" -> "visible-spectrum-visual-group"
      [] property = "spectralLocusVisual" -> "spectral-locus-visual-group"
      [] property = "pointerGamutVisual" -> "pointer-gamut-visual-group"
      [] property = "secondaryColourspaceVisual" ->
            "secondary-colourspace-visual-group"
      [] property = "primaryColourspaceVisual" ->
            "primary-colourspace-visual-group"
      [] property = "imageScatterVisual" -> "image-scatter-visual-group"
      [] property = "imageScatterOverlayVisual" ->
            "image-scatter-overlay-visual-group"

\* A GamutView as its constructor leaves it: the scene holds the groups, the
\* groups are empty.  The requests of Visuals that addXVisual has replaced
\* are kept in "pending", as a bag of <<property, route>>.
InitScene ==
    /\ kind = Undefined
    /\ colourAnalysisServer = Undefined
    /\ parent = Undefined
    /\ visible = TRUE
    /\ param = [f \in {} |-> 0]
    /\ cache = [r \in {} |-> 0]
    /\ visual = 0
    /\ loading = FALSE
    /\ objects = <<>>
    /\ children = [g \in {"scene"} \cup Groups |->
                      IF g = "scene" THEN GamutViewGroups ELSE <<>>]
    /\ pending = EmptyBag
    /\ fetchCount = 0
    /\ lastRoute = <<>>
    /\ adds = 0
    /\ fetches = 0
    /\ thrown = "none"
    /\ viewKind = "GamutView"
    /\ viewParam = DefaultViewParam
    /\ constituents = [s \in {} |-> 0]
    /\ viewFetchCount = 0
    /\ animation = NoAnimation
    /\ returned = "none"
    /\ routeLog = <<>>
    /\ settings = NoSettings
    /\ fade = NoFade

\* The fields of a standalone Visual and of the view that no operation on
\* the scene writes.
SceneFixed ==
    /\ thrown' = "none"
    /\ returned' = "none"
    /\ UNCHANGED <<kind, colourAnalysisServer, parent, visible, param, cache,
                   visual, loading, fetchCount, lastRoute, adds, fetches,
                   viewKind, viewParam, animation, routeLog, settings, fade>>

\* The requests in flight of the Visual the property holds, which stay in
\* flight when addXVisual replaces the Visual.
Replaced(property) ==
    IF property \in DOMAIN constituents
    THEN LET old == constituents[property].pending
         IN  [x \in {<<property, r>> : r \in BagToSet(old)} |->
                 CopiesIn(x[2], old)]
    ELSE EmptyBag

\* addXVisual() of a GamutView on its scene: the new Visual is bound to the
\* group of the property and add() is called on it, which removes the
\* renderables of its name from the group and, its cache being empty,
\* fetches.
SceneAddVisual(property) ==
    LET res == ConstituentAdd(Constructed(property, viewParam),
                              viewFetchCount)
        cs == ResetAdds(constituents)
    IN  /\ res.n <= MaxViewFetches
        /\ constituents' = [s \in DOMAIN cs \cup {property} |->
                               IF s = property THEN res.c ELSE cs[s]]
        /\ viewFetchCount' = res.n
        /\ children' = removeObjectByName(objects, children,
                                          GroupOf(property), NameOf(property))
        /\ pending' = pending (+) Replaced(property)
        /\ UNCHANGED objects
        /\ SceneFixed

\* The renderable the callback of a Visual of the view creates from the
\* response for route r.
SceneCreate(property, r) == [name |-> NameOf(property), data |-> r]

\* The onLoad callback of the Visual the property holds: the renderable is
\* created, cached and added to the Visual's parent.
\* A callback that clears the loading flag of every Visual of the view.
SceneFetchLoadClearsAll(property, r) ==
    /\ property \in DOMAIN constituents
    /\ BagIn(r, constituents[property].pending)
    /\ LET cs == ResetAdds(constituents)
           c == cs[property]
       IN  constituents' =
              [s \in DOMAIN cs |->
                  IF s = property
                  THEN [c EXCEPT !.pending = c.pending (-) SetToBag({r}),
                                 !.cache = c.cache \cup {r},
                                 !.visual = r,
                                 !.loading = FALSE]
                  ELSE [cs[s] EXCEPT !.loading = FALSE]]
    /\ objects' = Append(objects, SceneCreate(property, r))
    /\ children' = [children EXCEPT
                       ![GroupOf(property)] = Append(@, Len(objects) + 1)]
    /\ UNCHANGED <<pending, viewFetchCount>>
    /\ SceneFixed

SceneFetchLoad(property, r) ==
    /\ property \in DOMAIN constituents
    /\ BagIn(r, constituents[property].pending)
    /\ LET cs == ResetAdds(constituents)
           c == cs[property]
       IN  constituents' =
              [cs EXCEPT ![property] =
                  [c EXCEPT !.pending = c.pending (-) SetToBag({r}),
                            !.cache = c.cache \cup {r},
                            !.visual = r,
                            !.loading = FALSE]]
    /\ objects' = Append(objects, SceneCreate(property, r))
    /\ children' = [children EXCEPT
                       ![GroupOf(property)] = Append(@, Len(objects) + 1)]
    /\ UNCHANGED <<pending, viewFetchCount>>
    /\ SceneFixed

\* The onLoad callback of a Visual that addXVisual has replaced: it still
\* adds its renderable to the parent it was constructed with.
SceneReplacedLoad(property, r) ==
    /\ BagIn(<<property, r>>, pending)
    /\ pending' = pending (-) SetToBag({<<property, r>>})
    /\ objects' = Append(objects, SceneCreate(property, r))
    /\ children' = [children EXCEPT
                       ![GroupOf(property)] = Append(@, Len(objects) + 1)]
    /\ constituents' = ResetAdds(constituents)
    /\ UNCHANGED viewFetchCount
    /\ SceneFixed

NextScene ==
    \/ \E property \in GroupProperties : SceneAddVisual(property)
    \/ \E property \in DOMAIN constituents :
          \E r \in BagToSet(constituents[property].pending) :
             SceneFetchLoad(property, r)
    \/ \E x \in BagToSet(pending) : SceneReplacedLoad(x[1], x[2])

SpecScene == InitScene /\ [][NextScene]_vars

\* C23: in a GamutView the visual groups are children of the scene in one
\* fixed order (visible-spectrum, spectral-locus, pointer-gamut,
\* secondary-colourspace, primary-colourspace, image-scatter,
\* image-scatter-overlay), and every renderable of a group-bound Visual is
\* only ever attached inside that Visual's own group; hence the names of the
\* renderables in scene order follow that order for every order of
\* addXVisual calls and every arrival order of responses.
GroupOrder ==
    <<"visibleSpectrumVisual", "spectralLocusVisual", "pointerGamutVisual",
      "secondaryColourspaceVisual", "primaryColourspaceVisual",
      "imageScatterVisual", "imageScatterOverlayVisual">>

Rank(n) == CHOOSE i \in DOMAIN GroupOrder : NameOf(GroupOrder[i]) = n

\* The names of the renderables below the groups gs, in traversal order.
RECURSIVE Traversal(_)
Traversal(gs) ==
    IF gs = <<>> THEN <<>>
    ELSE [i \in DOMAIN children[Head(gs)] |->
             objects[children[Head(gs)][i]].name] \o Traversal(Tail(gs))

C23_GroupsFixTheOrder ==
    /\ Len(children["scene"]) = Len(GroupOrder)
    /\ \A i \in DOMAIN GroupOrder :
          /\ children["scene"][i] = GamutViewGroups[i]
          /\ \A j \in DOMAIN children[GamutViewGroups[i]] :
                objects[children[GamutViewGroups[i]][j]].name =
                   NameOf(GroupOrder[i])
    /\ \A o \in DOMAIN objects :
          Cardinality({g \in Groups :
                          \E j \in DOMAIN children[g] : children[g][j] = o}) <= 1
    /\ LET names == Traversal(children["scene"])
       IN  \A i, j \in DOMAIN names : i < j => Rank(names[i]) <= Rank(names[j])

\* The secondary colourspace renderable arrived after the primary one and
\* after the image scatter one, and stands before both in the scene.
C23_Witness ==
    /\ Len(objects) = 2
    /\ objects[1].name = "primary-colourspace-visual"
    /\ objects[2].name = "secondary-colourspace-visual"
    /\ Traversal(children["scene"]) =
          <<"secondary-colourspace-visual", "primary-colourspace-visual">>
    /\ constituents["primaryColourspaceVisual"].adds = 0

\* C24: for ImageVisual, whose fetch callback installs the renderable through
\* the "visual" setter (remove by name, then attach), at most one renderable
\* bearing the Visual's name is attached under the parent in every reachable
\* state, also when two responses arrive out of order.
C24_ImageVisualAtMostOneAttached ==
    kind = "ImageVisual" =>
        /\ Cardinality(AttachedNamed(parent, name)) <= 1
        /\ \A p \in Parents \ {parent} : children[p] = <<>>

\* Two requests were in flight and the response to the second arrived first:
\* the renderable of the first request alone is attached.
C24_Witness ==
    /\ kind = "ImageVisual"
    /\ Len(objects) = 2
    /\ objects[1].data.id = 2
    /\ objects[2].data.id = 1
    /\ objects[1].data.route # objects[2].data.route
    /\ children[parent] = <<2>>
    /\ pending = {}

\* ------------------------------------------- calls without overlapping fetches

\* A ColourspaceVisual whose every fetch completes successfully before the
\* next call is made.
NextSequential ==
    \/ pending = {} /\ Add
    \/ pending = {} /\ \E value \in ColourspaceValues : SetColourspace(value)
    \/ pending = {} /\ \E value \in ColourspaceModelValues :
                          SetColourspaceModel(value)
    \/ pending = {} /\ \E value \in SegmentsValues : SetSegments(value)
    \/ pending = {} /\ \E value \in UniformColourValues :
                          SetUniformColour(value)
    \/ pending = {} /\ \E value \in OpacityValues : SetUniformOpacity(value)
    \/ pending = {} /\ \E value \in WireframeValues : SetWireframe(value)
    \/ \E req \in pending : FetchLoad(req)

InitSequential == Init /\ kind = "ColourspaceVisual"

SpecSequential == InitSequential /\ [][NextSequential]_vars

\* C25: without overlapping fetches, after any sequence of setter calls on a
\* ColourspaceVisual the renderable attached to the parent is the object
\* stored in cache[route()] for the current parameters, and for every cache
\* entry the wireframe flag of the renderable's material equals the wireframe
\* value encoded in the entry's route key.
C25_AttachedIsCachedForRoute ==
    /\ pending = {} /\ objects # <<>> =>
          /\ route \in DOMAIN cache
          /\ children[parent] = <<cache[route]>>
    /\ \A r \in DOMAIN cache :
          HasParameter(r, "wireframe=",
                       BoolString(objects[cache[r]].material.wireframe))

\* C26: whenever a Visual's loading flag is false, no fetch issued by that
\* Visual is still in flight; the flag is true from the add() that issued a
\* fetch until the last outstanding fetch of the Visual has completed.
C26_NotLoadingMeansNoFetchInFlight ==
    loading = FALSE => pending = {}

\* ------------------------------------------------ fetches that all complete

\* A view whose page has called every addXVisual once: each Visual has
\* issued its first request.  The fetch count of the view counts the
\* requests of the calls that follow.
InitAdded ==
    /\ NoVisual
    /\ thrown = "none"
    /\ viewKind \in Views
    /\ viewParam = DefaultViewParam
    /\ constituents =
          [s \in {VisualProperties(viewKind)[i] :
                     i \in DOMAIN VisualProperties(viewKind)} |->
              [ConstituentAdd(Constructed(s, DefaultViewParam), 0).c
                  EXCEPT !.adds = 0]]
    /\ viewFetchCount = 0
    /\ animation = NoAnimation
    /\ returned = "none"
    /\ routeLog = <<>>
    /\ settings = NoSettings
    /\ fade = NoFade

InitLoading == Init \/ InitAdded

\* The arrival of a response to some request of the standalone Visual.
Arrival == \E req \in pending : FetchLoad(req)

\* The arrival of a response to some request of a Visual of the view.
ViewArrival ==
    \E property \in DOMAIN constituents :
       \E r \in BagToSet(constituents[property].pending) :
          ViewFetchLoad(property, r)

\* Visuals and views none of whose requests fails.  The calls that fetch
\* stop when the bound on the fetches is reached.
NextLoading ==
    \/ kind \in Kinds /\ Add
    \/ \E value \in ColourspaceValues : SetColourspace(value)
    \/ \E value \in ImageColourspaceValues : SetImageColourspace(value)
    \/ kind \in Kinds /\ Arrival
    \/ \E value \in ViewImageColourspaceValues : ViewSetImageColourspace(value)
    \/ ViewIsLoading
    \/ ViewArrival

\* Every request is answered: the loader calls onLoad for each request it
\* was given.
SpecLoading ==
    /\ InitLoading
    /\ [][NextLoading]_vars
    /\ WF_vars(Arrival)
    /\ WF_vars(ViewArrival)

\* C27: if every issued fetch eventually completes successfully and the
\* calls that fetch eventually stop, then the loading flag of every Visual
\* eventually becomes false and stays false, and isLoading() of a view over
\* fully added Visuals eventually returns false (and no longer true).
C27_LoadingEventuallyFalse ==
    /\ <>[](loading = FALSE /\ pending = {})
    /\ <>[](\A s \in DOMAIN constituents :
               /\ constituents[s].loading = FALSE
               /\ constituents[s].pending = EmptyBag)
    /\ <>[](viewKind \in Views =>
               LoadingChain(constituents, VisualProperties(viewKind)) = "false")
    /\ <>[](returned # "true")

\* isLoading() of a GamutView has returned false after having returned true:
\* all the Visuals are added, a setter has made two of them fetch again, and
\* every response has arrived.
C27_Witness ==
    /\ viewKind = "GamutView"
    /\ returned = "false"
    /\ viewFetchCount = 2
    /\ DOMAIN constituents = AllVisualProperties \ {"imageVisual", "imageOverlayVisual"}
    /\ \A s \in DOMAIN constituents :
          /\ constituents[s].loading = FALSE
          /\ constituents[s].pending = EmptyBag
          /\ constituents[s].cache # {}
    /\ Cardinality(constituents["imageScatterVisual"].cache) = 2

\* C28: in every reachable state, every renderable attached to the parent
\* under a Visual's name is a value currently stored in that Visual's cache,
\* so that the setters that iterate over the cache reach every attached
\* renderable.
C28_AttachedAreCached ==
    \A o \in Attached : o \in Range(cache)

\* C29: in every reachable state, every renderable stored in a Visual's cache
\* has its visible flag equal to the Visual's current visible flag, for any
\* interleaving of visible-setter calls, parameter setters and fetch
\* completions.
C29_CachedFollowVisible ==
    \A r \in DOMAIN cache : objects[cache[r]].visible = visible

\* Two renderables are cached and hidden; one request was issued, and the
\* other renderable created, while the Visual was hidden.
C29_Witness ==
    /\ Cardinality(DOMAIN cache) = 2
    /\ visible = FALSE
    /\ \A r \in DOMAIN cache : objects[cache[r]].visible = FALSE
    /\ visual = 2
    /\ pending = {}

\* --------------------------------------------------------- removeObjectByName

\* The two variants of removeObjectByName: the one that removes the object
\* it found from the node it searched, and the one that removes it from its
\* own parent.
RemoveVariants == {"scene.remove", "object.parent.remove"}

\* getObjectByName on the nodes of the stack, depth first: the first node
\* bearing the name n, or -1 for undefined.  Node 0 is the node searched, a
\* group or a scene, which bears a name of its own.
RECURSIVE getObjectByName(_, _)
getObjectByName(stack, n) ==
    IF stack = <<>> THEN -1
    ELSE IF Head(stack) # 0 /\ objects[Head(stack)].name = n
         THEN Head(stack)
         ELSE getObjectByName(children[Head(stack)] \o Tail(stack), n)

\* A call of removeObjectByName(root, "visual") about to test its loop
\* condition, on a tree of MaxNodes objects below the root: every object is
\* the child of the root or of an object before it.
InitRemove ==
    /\ NoView
    /\ kind \in RemoveVariants
    /\ colourAnalysisServer = Undefined
    /\ parent = 0
    /\ visible = TRUE
    /\ param = [f \in {} |-> 0]
    /\ cache = [r \in {} |-> 0]
    /\ visual = 0
    /\ loading = FALSE
    /\ objects \in [1..MaxNodes -> {[name |-> "visual"], [name |-> "other"]}]
    /\ \E up \in [1..MaxNodes -> 0..(MaxNodes - 1)] :
          /\ \A i \in 1..MaxNodes : up[i] < i
          /\ children = [q \in 0..MaxNodes |->
                            SelectSeq([i \in 1..MaxNodes |-> i],
                                      LAMBDA i : up[i] = q)]
    /\ pending = {}
    /\ fetchCount = 0
    /\ lastRoute = <<>>
    /\ adds = 0
    /\ fetches = 0
    /\ thrown = "none"

\* One step of the loop.  At the loop condition ("none") the function
\* returns when no object of the name is found, and enters the body
\* ("object") otherwise; the body searches again, removes what it found and
\* goes back to the condition.
removeObjectByNameLoop ==
    LET object == getObjectByName(<<0>>, "visual")
    IN  /\ IF returned = "none"
           THEN /\ returned' = IF object = -1 THEN "returned" ELSE "object"
                /\ UNCHANGED children
           ELSE /\ returned = "object"
                /\ children' =
                      IF kind = "scene.remove"
                      THEN [children EXCEPT ![0] = ObjectRemove(@, object)]
                      ELSE [q \in DOMAIN children |->
                               ObjectRemove(children[q], object)]
                /\ returned' = "none"
        /\ UNCHANGED <<kind, colourAnalysisServer, parent, visible, param,
                       cache, visual, loading, objects, pending, fetchCount,
                       lastRoute, adds, fetches, thrown, viewKind, viewParam,
                       constituents, viewFetchCount, animation, routeLog, settings, fade>>

\* The loop runs on: a test that can be made is made.
SpecRemove ==
    /\ InitRemove
    /\ [][removeObjectByNameLoop]_vars
    /\ WF_vars(removeObjectByNameLoop)

\* C30: removeObjectByName(root, name) terminates for every finite scene
\* tree, including when the named object is a nested descendant of root
\* rather than a direct child, and when it returns no object with that name
\* remains anywhere under root.
C30_RemoveTerminatesAndClears ==
    /\ <>(returned = "returned")
    /\ [](returned = "returned" => getObjectByName(<<0>>, "visual") = -1)

C32_ParentAssignmentMovesVisual ==
    /\ [](\A p \in Parents \ {parent} : AttachedNamed(p, name) = {})
    /\ [][parent' # parent =>
             /\ children'[parent] = <<>>
             /\ children'[parent'] = IF visual # 0 THEN <<visual>> ELSE <<>>
             /\ visual' = visual]_vars
    /\ [][Len(objects') > Len(objects) =>
             /\ parent' = parent
             /\ children'[parent][Len(children'[parent])] = Len(objects')
             /\ \A p \in Parents \ {parent} : children'[p] = <<>>]_vars

\* The parent has been assigned with one renderable installed and a request
\* in flight: the renderable is under the new parent, the old one is empty.
C32_Witness ==
    /\ parent = "group2"
    /\ fetchCount = 2
    /\ Len(objects) = 1
    /\ visual = 1
    /\ children = [p \in Parents |-> IF p = "group2" THEN <<1>> ELSE <<>>]
    /\ Cardinality(pending) = 1
    /\ adds = 0
    /\ loading = FALSE

\* ---------------------------------------------------------------- messages

\* The message helpers.  The page state is the record fade: the two elements
\* (whether getElementById finds them, style.opacity in hundredths, and the
\* number of the text they show), the two registries, the timers the window
\* holds, the last timer id it gave out and the number of helper calls made.
\* A timer carries its id, its type, the element and registry its callback
\* closes over, and the number of the text whose fade it belongs to.

\* clearRegistry(element, registry): the element is made opaque and every id
\* is shifted out of the registry and passed to clearInterval and to
\* clearTimeout, which cancel the timer of that id whatever its type.
\* clearRegistry with a test in place of the loop: one id is shifted out.
clearRegistryOnce(f, h) ==
    [f EXCEPT !.element[h].opacity = 100,
              !.timers = {t \in @ : f.registry[h] = <<>>
                                    \/ f.registry[h][1] # t.id},
              !.registry[h] = IF @ = <<>> THEN @ ELSE Tail(@)]

clearRegistry(f, h) ==
    [f EXCEPT !.element[h].opacity = 100,
              !.timers = {t \in @ : \A i \in DOMAIN f.registry[h] :
                                        f.registry[h][i] # t.id},
              !.registry[h] = <<>>]

\* fadeElement(element, registry, delay, speed): a timeout is set and its id
\* pushed into the registry.
fadeElement(f, h) ==
    [f EXCEPT !.ids = @ + 1,
              !.registry[h] = Append(@, f.ids + 1),
              !.timers = @ \cup {[id |-> f.ids + 1, type |-> "timeout",
                                  registry |-> h,
                                  text |-> f.element[h].innerText]}]

\* message(text, element, registry, delay, speed): nothing on an element
\* that is null; otherwise the text is set, the registry cleared and the
\* fade scheduled.
message(f, h) ==
    IF ~f.element[h].exists
    THEN f
    ELSE fadeElement(
             clearRegistry([f EXCEPT !.element[h].innerText = f.calls], h),
             h)

\* The Visual and the view are not touched by the message helpers.
FadeFixed ==
    UNCHANGED <<kind, colourAnalysisServer, parent, visible, param, cache,
                visual, loading, objects, children, pending, fetchCount,
                lastRoute, adds, fetches, thrown, viewKind, viewParam,
                constituents, viewFetchCount, animation, returned, routeLog,
                settings>>

\* info(text) or warning(text): the helper h is called with a new text.
Message(h) ==
    /\ fade.calls < MaxMessages
    /\ fade' = message([fade EXCEPT !.calls = @ + 1], h)
    /\ FadeFixed

\* The callback of the timeout t: the element is made opaque, an interval is
\* set and its id pushed into the registry.  A timeout runs once.
TimeoutFires(t) ==
    /\ t \in fade.timers
    /\ t.type = "timeout"
    /\ fade' = [fade EXCEPT
                   !.element[t.registry].opacity = 100,
                   !.ids = @ + 1,
                   !.timers = (@ \ {t}) \cup
                                  {[id |-> fade.ids + 1, type |-> "interval",
                                    registry |-> t.registry,
                                    text |-> t.text]},
                   !.registry[t.registry] = Append(@, fade.ids + 1)]
    /\ FadeFixed

\* The callback of the interval t: at opacity 0 the interval clears itself,
\* otherwise the opacity goes down by 0.01.
IntervalTick(t) ==
    /\ t \in fade.timers
    /\ t.type = "interval"
    /\ fade' = IF fade.element[t.registry].opacity = 0
               THEN [fade EXCEPT !.timers = @ \ {t}]
               ELSE [fade EXCEPT !.element[t.registry].opacity = @ - 1]
    /\ FadeFixed

\* A page on which each of the two elements is present or missing.
InitMessage ==
    /\ kind = "ColourspaceVisual"
    /\ colourAnalysisServer = Undefined
    /\ parent = "group1"
    /\ visible = TRUE
    /\ param = DefaultParam(kind)
    /\ cache = [r \in {} |-> 0]
    /\ visual = 0
    /\ loading = FALSE
    /\ objects = <<>>
    /\ children = [p \in Parents |-> <<>>]
    /\ pending = {}
    /\ fetchCount = 0
    /\ lastRoute = <<>>
    /\ adds = 0
    /\ fetches = 0
    /\ thrown = "none"
    /\ viewKind = Undefined
    /\ viewParam = DefaultViewParam
    /\ constituents = [s \in {} |-> 0]
    /\ viewFetchCount = 0
    /\ animation = NoAnimation
    /\ returned = "none"
    /\ routeLog = <<>>
    /\ settings = NoSettings
    /\ \E present \in SUBSET DOMAIN NoFade.element :
          fade = [NoFade EXCEPT
                     !.element = [h \in DOMAIN @ |->
                                     [@[h] EXCEPT !.exists = h \in present]]]

NextMessage ==
    \/ \E h \in DOMAIN fade.registry : Message(h)
    \/ \E t \in fade.timers : TimeoutFires(t)
    \/ \E t \in fade.timers : IntervalTick(t)

SpecMessage == InitMessage /\ [][NextMessage]_vars

\* The live timers whose callback works on the element of helper h.
FadeTimers(h) == {t \in fade.timers : t.registry = h}

\* C33: a call of a message helper on an existing element cancels every
\* timer its registry held before it schedules the new fade, so each
\* registry has at most one live timer, every live timer is registered and
\* belongs to the fade of the text its element shows, and no step of the
\* fade of an earlier text changes the opacity once a newer text is shown.
C33_MessageCancelsEarlierFade ==
    /\ [](\A h \in DOMAIN fade.registry :
            /\ Cardinality(FadeTimers(h)) <= 1
            /\ \A t \in FadeTimers(h) :
                  /\ t.text = fade.element[h].innerText
                  /\ \E i \in DOMAIN fade.registry[h] :
                        fade.registry[h][i] = t.id)
    /\ [][\A h \in DOMAIN fade.registry :
            fade'.element[h].innerText # fade.element[h].innerText =>
                /\ FadeTimers(h) \cap fade'.timers = {}
                /\ \A t \in fade'.timers :
                      t.registry = h =>
                          /\ t.type = "timeout"
                          /\ t.text = fade'.element[h].innerText]_vars
    /\ [][\A h \in DOMAIN fade.registry :
            /\ fade'.calls = fade.calls
            /\ fade'.element[h].opacity # fade.element[h].opacity
            => \E t \in FadeTimers(h) :
                  t.text = fade.element[h].innerText]_vars

\* The second text replaced the first while the fade of the first was under
\* way: its timeout had fired and its interval had been set; only the
\* timeout of the second text is left and the element is opaque again.
C33_Witness ==
    /\ fade.calls = 2
    /\ fade.element["info"].exists
    /\ fade.element["info"].innerText = 2
    /\ fade.element["info"].opacity = 100
    /\ fade.ids = 3
    /\ fade.registry["info"] = <<3>>
    /\ fade.timers = {[id |-> 3, type |-> "timeout", registry |-> "info",
                       text |-> 2]}

\* ---------------------------------------------------------------- settings

\* A Visual of a concrete class constructed with settings that leave
\* "visible" out or give it as true or as false.  The constructor stores
\* settings.visible || true: the setting when it is truthy, true otherwise.
InitSettings ==
    /\ kind \in Kinds
    /\ colourAnalysisServer = Undefined
    /\ parent = "group1"
    /\ settings \in {NoSettings} \cup [visible : BOOLEAN]
    /\ visible = IF "visible" \in DOMAIN settings /\ settings.visible
                 THEN settings.visible
                 ELSE TRUE
    /\ param = DefaultParam(kind)
    /\ cache = [r \in {} |-> 0]
    /\ visual = 0
    /\ loading = FALSE
    /\ objects = <<>>
    /\ children = [p \in Parents |-> <<>>]
    /\ pending = {}
    /\ fetchCount = 0
    /\ lastRoute = <<>>
    /\ adds = 0
    /\ fetches = 0
    /\ thrown = "none"
    /\ viewKind = Undefined
    /\ viewParam = DefaultViewParam
    /\ constituents = [s \in {} |-> 0]
    /\ viewFetchCount = 0
    /\ animation = NoAnimation
    /\ returned = "none"
    /\ routeLog = <<>>
    /\ fade = NoFade

\* The Visual is added, its parameters are set and its requests complete; the
\* "visible" setter is not called.
SpecSettings == InitSettings /\ [][Next]_vars

\* C34: the visibility flag of a newly constructed Visual is settings.visible
\* when the setting is supplied and true otherwise, and the renderables
\* created while the "visible" setter has not been called carry that flag.
C34_VisibleFollowsSetting ==
    LET flag == IF "visible" \in DOMAIN settings
                THEN settings.visible
                ELSE TRUE
    IN  /\ visible = flag
        /\ \A i \in DOMAIN objects : objects[i].visible = flag

====
